---- MODULE Spec2Model ----
(***************************************************************************)
(* Model of the bender daemon's task queue (package task): a SQLite-backed *)
(* table of tasks, one buffered channel, a fixed pool of worker            *)
(* goroutines, deferred retry goroutines, CancelTask, EnqueueAndWait and   *)
(* restart recovery after a process crash.                                 *)
(***************************************************************************)
EXTENDS Integers, Sequences, FiniteSets, Bags, TLC

\* ---------------------------------------------------------------- bounds
MaxTasks == 2        \* number of Enqueue calls (task ids) explored
ChanCap == 2         \* capacity of the dispatch channel, scaled down
MaxRetriesCfg == 1   \* cfg.MaxRetries of the explored configuration
SuffixLimit == 3     \* the limit of resolveConflict's loop (i < 1000), scaled down
MaxMoves == 2        \* number of file operations explored in a run
MaxOps == 2          \* number of Record calls explored in a run
retention == 2       \* the retention window of the ledger (24h), in instants
MaxConns == 2        \* number of client connections to the API server
MaxAccepts == 2      \* failed Accept calls counted after the listener is closed
MaxSize == 2         \* largest file size (in bytes) explored
LiveTasks == 3       \* number of tasks in a run checked for termination
MaxLines == 2        \* number of lines a client sends on a connection
MantissaBits == 3    \* the 53 bits of a float64 mantissa, scaled down

\* ------------------------------------------------------- program constants
\* cfg.MaxWorkers as NewQueue defaults it.
MaxWorkers == 2

StatusPending == "pending"
StatusRunning == "running"
StatusCompleted == "completed"
StatusFailed == "failed"

TaskClipboardSummarize == "clipboard.summarize"
TaskGitCommit == "git.commit"

\* The task types a caller may pass to Enqueue.
TaskType == {TaskClipboardSummarize, TaskGitCommit}

\* The (type, priority) arguments of the Enqueue calls explored.
Inputs == {<<TaskClipboardSummarize, 0>>, <<TaskGitCommit, 1>>}

\* The task types of the two pipelines.
TaskPipelineAutoFile == "pipeline.auto_file"
TaskPipelineScreenshot == "pipeline.screenshot"

\* The types the daemon registers a pipeline of the PipelineRunner for.
pipelineHandlers == {TaskPipelineAutoFile, TaskPipelineScreenshot}

\* q.handlers after the RegisterHandler calls made before Start: of the types
\* a caller of Inputs passes, one has a handler, the other has none.
handlers == {TaskClipboardSummarize} \cup pipelineHandlers

\* Error strings a failing handler may return (err.Error()).
HandlerErrors == {"e1", "e2"}

CancelledByUser == "cancelled by user"

NoHandlerError(type) == "no handler for task type: " \o type

Ids == 1..MaxTasks

VARIABLES
    db,        \* the tasks table: id -> row
    tasks,     \* q.tasks, the buffered channel of *Task
    phase,     \* "new" (NewQueue done), "recovered" (restartPending done), "started"
    workers,   \* number of worker goroutines launched by Start
    running,   \* bag of *Task whose handler a worker is executing
    retrying,  \* bag of *Task held by deferred retry goroutines (sleeping or sending)
    nextId,    \* next value of generateID / time.Now()
    waiter,    \* the caller of EnqueueAndWait
    calls,     \* id -> number of handler invocations made for the task
    recovered, \* ids that restartPending resubmitted
    lastErr,   \* id -> error string of the task's last handler failure
    fs,        \* the file system: path of each existing file -> its content
    ledger,    \* the file_operations table of the UndoManager
    clock,     \* time.Now() of the file operations
    fret,      \* the last call into package fileops and what it returned
    pipe,      \* the pipeline a handler is running
    conn       \* the connection of a client to the API server

vars == <<db, tasks, phase, workers, running, retrying, nextId, waiter,
          calls, recovered, lastErr, fs, ledger, clock, fret, pipe, conn>>

\* The state of the queue proper, and the state of the file side.
queue == <<db, tasks, phase, workers, running, retrying, nextId, waiter>>
files == <<fs, ledger, clock, fret, pipe>>

WaiterIdle == [pc |-> "idle", id |-> 0, task |-> "nil", err |-> FALSE]

\* An accepted connection on which nothing was sent yet: in holds the lines
\* the server has not read, out the responses it wrote, pc tells whether
\* handleConnection is reading, in a handler or has returned; sent lists the
\* lines the client sent, calls counts the handler invocations and line is
\* the line whose handler is running.
NoConn ==
    [pc |-> "read", in |-> <<>>, out |-> <<>>, sent |-> <<>>, calls |-> 0,
     line |-> ""]

\* A *Task as the queue holds it in memory. Type, Priority and MaxRetries are
\* copied from the row and never change, so they are read from db.
Task(id, rc, started, finished) ==
    [id |-> id, retry_count |-> rc, started_at |-> started, finished_at |-> finished]

\* ------------------------------------------------------------- operators

\* UPDATE tasks SET status, result, error, started_at, finished_at,
\* retry_count WHERE id = ?
updateTask(d, t, status, result, error) ==
    IF t.id \in DOMAIN d
    THEN [d EXCEPT ![t.id] = [@ EXCEPT !.status = status,
                                       !.result = result,
                                       !.error = error,
                                       !.started_at = t.started_at,
                                       !.finished_at = t.finished_at,
                                       !.retry_count = t.retry_count]]
    ELSE d

\* failTask storing a wrapped message instead of err.Error().
failTaskWrapped(d, t, err) ==
    updateTask(d, [t EXCEPT !.finished_at = TRUE], StatusFailed, "",
               "task failed: " \o err)

\* failTask: status failed, error = err.Error(), finished_at = now.
failTask(d, t, err) ==
    updateTask(d, [t EXCEPT !.finished_at = TRUE], StatusFailed, "", err)

\* ORDER BY priority DESC, created_at ASC
Before(d, a, b) ==
    \/ d[a].priority > d[b].priority
    \/ d[a].priority = d[b].priority /\ d[a].created_at < d[b].created_at

RECURSIVE OrderRows(_, _)
OrderRows(d, S) ==
    IF S = {} THEN <<>>
    ELSE LET a == CHOOSE x \in S : \A y \in S \ {x} : Before(d, x, y)
         IN <<a>> \o OrderRows(d, S \ {a})

\* The rows restartPending selects, in query order.
PendingRows(d) ==
    OrderRows(d, {id \in DOMAIN d : d[id].status \in {StatusPending, StatusRunning}})

\* The loop of restartPending: a non-blocking send per row, dropping the task
\* when the channel is full.
RECURSIVE Resubmit(_, _, _)
Resubmit(d, ch, rows) ==
    IF rows = <<>> THEN ch
    ELSE LET t == Task(Head(rows), d[Head(rows)].retry_count, FALSE, FALSE)
         IN IF Len(ch) < ChanCap
            THEN Resubmit(d, Append(ch, t), Tail(rows))
            ELSE Resubmit(d, ch, Tail(rows))

\* ------------------------------------------------------------ package fileops

\* A path: directory, file name without extension, extension (filepath.Ext).
Path(dir, base, ext) == [dir |-> dir, base |-> base, ext |-> ext]

\* The empty string as a path.
NoPath == Path("", "", "")

\* A file system without files.
EmptyFS == [p \in {} |-> ""]

\* os.Stat(p) succeeds.
Exists(f, p) == p \in DOMAIN f

\* os.Rename(src, dst): dst is replaced when it exists.
osRename(f, src, dst) ==
    [p \in (DOMAIN f \ {src}) \cup {dst} |-> IF p = dst THEN f[src] ELSE f[p]]

\* fmt.Sprintf("%s-%d%s", base, i, ext)
Candidate(dst, i) == [dst EXCEPT !.base = dst.base \o "-" \o ToString(i)]

\* The loop of resolveConflict from i on.
RECURSIVE firstFree(_, _, _)
firstFree(f, dst, i) ==
    IF i >= SuffixLimit THEN dst
    ELSE IF ~Exists(f, Candidate(dst, i)) THEN Candidate(dst, i)
    ELSE firstFree(f, dst, i + 1)

resolveConflict(f, dst) ==
    IF ~Exists(f, dst) THEN dst ELSE firstFree(f, dst, 1)

\* What a call into fileops leaves: the file system, the path and the error.
FileResult(f, path, err) == [fs |-> f, path |-> path, err |-> err]

\* MoveFile(src, dst); io is the outcome of the system calls ("ok", or the
\* call that fails).
MoveFile(f, src, dst, io) ==
    IF ~Exists(f, src) THEN FileResult(f, NoPath, "source not found")
    ELSE IF io = "mkdir" THEN FileResult(f, NoPath, "create destination directory")
    ELSE IF io = "rename" THEN FileResult(f, NoPath, "move file")
    ELSE LET d == resolveConflict(f, dst)
         IN FileResult(osRename(f, src, d), d, "")

\* RenameFile(src, newName): the new name in the directory of src.
RenameFile(f, src, newName, io) ==
    IF ~Exists(f, src) THEN FileResult(f, NoPath, "source not found")
    ELSE IF io = "rename" THEN FileResult(f, NoPath, "rename file")
    ELSE LET d == resolveConflict(f, Path(src.dir, newName.base, newName.ext))
         IN FileResult(osRename(f, src, d), d, "")

\* No call into fileops made yet.
NoCall == [call |-> "", src |-> NoPath, dst |-> NoPath, path |-> NoPath, err |-> ""]

\* No pipeline is running.
PipeIdle == [pc |-> "idle"]

\* The file side before any file exists and any operation is made.
InitFiles ==
    /\ fs = EmptyFS
    /\ ledger = {}
    /\ clock = 1
    /\ fret = NoCall
    /\ pipe = PipeIdle

\* --------------------------------------------------------------- initial state
InitQueue ==
    /\ db = <<>>
    /\ tasks = <<>>
    /\ phase = "new"
    /\ workers = 0
    /\ running = EmptyBag
    /\ retrying = EmptyBag
    /\ nextId = 1
    /\ waiter = WaiterIdle
    /\ calls = [id \in Ids |-> 0]
    /\ recovered = {}
    /\ lastErr = [id \in Ids |-> ""]
    /\ conn = NoConn

\* The state after NewQueue, with no file and no file operation yet.
Init ==
    /\ InitQueue
    /\ InitFiles

\* ------------------------------------------------------------------ actions

\* The INSERT of Enqueue.
NewRow(type, priority) ==
    [type |-> type, priority |-> priority, status |-> StatusPending,
     result |-> "", error |-> "", created_at |-> nextId,
     started_at |-> FALSE, finished_at |-> FALSE,
     retry_count |-> 0, max_retries |-> MaxRetriesCfg]

\* Enqueue with a blocking send: it waits for space in the channel.
EnqueueStepBlocking(type, priority, ok) ==
    /\ nextId <= MaxTasks
    /\ Len(tasks) < ChanCap
    /\ ok
    /\ db' = db @@ (nextId :> NewRow(type, priority))
    /\ nextId' = nextId + 1
    /\ tasks' = Append(tasks, Task(nextId, 0, FALSE, FALSE))

\* Enqueue's effect on the store, the channel and the id generator; ok tells
\* whether the non-blocking send succeeded.
EnqueueStep(type, priority, ok) ==
    /\ nextId <= MaxTasks
    /\ db' = db @@ (nextId :> NewRow(type, priority))
    /\ nextId' = nextId + 1
    /\ ok = (Len(tasks) < ChanCap)
    /\ tasks' = IF ok THEN Append(tasks, Task(nextId, 0, FALSE, FALSE)) ELSE tasks

\* Enqueue; err is the error it returns ("" for nil).
Enqueue(type, priority, err) ==
    /\ EnqueueStep(type, priority, err = "")
    /\ err \in {"", "task queue full"}
    /\ UNCHANGED <<phase, workers, running, retrying, waiter>>

\* restartPending, the first half of Start.
restartPending ==
    /\ phase = "new"
    /\ phase' = "recovered"
    /\ tasks' = Resubmit(db, tasks, PendingRows(db))
    /\ UNCHANGED <<db, workers, running, retrying, nextId, waiter>>

\* A worker loop that starts one goroutine too many.
StartedWorkersExtra == MaxWorkers + 1

\* The number of worker goroutines Start launches:
\* for i := 0; i < q.maxWorkers; i++.
StartedWorkers == MaxWorkers

\* The second half of Start: launch the workers.
Start ==
    /\ phase = "recovered"
    /\ phase' = "started"
    /\ workers' = StartedWorkers
    /\ UNCHANGED <<db, tasks, running, retrying, nextId, waiter>>

\* processTask up to the handler call: mark running, then invoke the handler.
processInvoke(t) ==
    /\ db' = updateTask(db, [t EXCEPT !.started_at = TRUE], StatusRunning, "", "")
    /\ running' = running (+) SetToBag({[t EXCEPT !.started_at = TRUE]})

\* processTask without the check that a handler is registered.
processNoHandlerInvoke(t) == processInvoke(t)

\* processTask when q.handlers has no entry for the task's type.
processNoHandler(t) ==
    /\ db' = failTask(db, t, NoHandlerError(db[t.id].type))
    /\ UNCHANGED running

\* An idle worker receives the next task from the channel and enters
\* processTask. Workers are interchangeable, so only their number is kept.
worker ==
    /\ BagCardinality(running) < workers
    /\ tasks # <<>>
    /\ tasks' = Tail(tasks)
    /\ LET t == Head(tasks)
       IN IF db[t.id].type \in handlers
          THEN processInvoke(t)
          ELSE processNoHandler(t)
    /\ UNCHANGED <<phase, workers, retrying, nextId, waiter>>

\* The retry test with <= in place of <.
RetryAllowedInclusive(t) == t.retry_count <= db[t.id].max_retries

\* The branch of processTask taken when the handler returned an error.
RetryAllowed(t) == t.retry_count < db[t.id].max_retries

processFailure(t, err) ==
    /\ IF RetryAllowed(t)
       THEN LET r == [t EXCEPT !.retry_count = @ + 1]
            IN /\ db' = updateTask(db, r, StatusPending, "", "")
               /\ retrying' = retrying (+) SetToBag({r})
       ELSE /\ db' = failTask(db, t, err)
            /\ UNCHANGED retrying

processSuccess(t) ==
    /\ db' = updateTask(db, t, StatusCompleted, "result", "")
    /\ UNCHANGED retrying

\* A worker that sleeps through the retry delay inside processTask.
ReleasedAfterDelay(r) == running

\* The tasks in a handler once processTask has returned for r: its worker is
\* back at the channel.
Released(r) == running (-) SetToBag({r})

\* The handler called for r returns res and processTask runs to its end.
processTask(r, res) ==
    /\ BagIn(r, running)
    /\ running' = Released(r)
    /\ LET t == [r EXCEPT !.finished_at = TRUE]
       IN IF res = "ok"
          THEN processSuccess(t)
          ELSE processFailure(t, res)
    /\ UNCHANGED <<tasks, phase, workers, nextId, waiter>>

\* The deferred goroutine of a retry: after the delay, a blocking send.
retry(t) ==
    /\ BagIn(t, retrying)
    /\ Len(tasks) < ChanCap
    /\ tasks' = Append(tasks, t)
    /\ retrying' = retrying (-) SetToBag({t})
    /\ UNCHANGED <<db, phase, workers, running, nextId, waiter>>

\* The UPDATE of CancelTask without its status condition.
CancelRowsAnyStatus(id) ==
    IF id \in DOMAIN db THEN {id} ELSE {}

\* UPDATE ... WHERE id = ? AND status IN ('pending', 'running')
CancelRows(id) ==
    IF id \in DOMAIN db /\ db[id].status \in {StatusPending, StatusRunning}
    THEN {id} ELSE {}

\* CancelTask; err tells whether it returns an error.
CancelTask(id, err) ==
    /\ UNCHANGED <<tasks, phase, workers, running, retrying, nextId, waiter>>
    /\ LET rows == CancelRows(id)
       IN /\ db' = [x \in DOMAIN db |->
                      IF x \in rows
                      THEN [db[x] EXCEPT !.status = StatusFailed,
                                         !.error = CancelledByUser,
                                         !.finished_at = TRUE]
                      ELSE db[x]]
          /\ err = (rows = {})

\* The process dies; a new process calls NewQueue on the same database.
Crash ==
    /\ phase' = "new"
    /\ tasks' = <<>>
    /\ workers' = 0
    /\ running' = EmptyBag
    /\ retrying' = EmptyBag
    /\ waiter' = WaiterIdle
    /\ UNCHANGED <<db, nextId>>

\* EnqueueAndWait: the Enqueue call and, when it fails, the error return.
EnqueueAndWait(type, priority) ==
    /\ waiter.pc \in {"idle", "returned"}
    /\ \E ok \in BOOLEAN :
          /\ EnqueueStep(type, priority, ok)
          /\ waiter' = IF ok
                       THEN [pc |-> "polling", id |-> nextId, task |-> "nil", err |-> FALSE]
                       ELSE [pc |-> "returned", id |-> nextId, task |-> "nil", err |-> TRUE]
    /\ UNCHANGED <<phase, workers, running, retrying>>

\* A polling loop that returns as soon as the task has left pending.
WaitReturnsStarted(status) == status # StatusPending

\* The statuses on which the polling loop of EnqueueAndWait returns the task.
WaitReturns(status) == status \in {StatusCompleted, StatusFailed}

\* EnqueueAndWait: a ticker tick on which GetTask shows a status that returns.
waitTick ==
    /\ waiter.pc = "polling"
    /\ WaitReturns(db[waiter.id].status)
    /\ waiter' = [waiter EXCEPT !.pc = "returned",
                                !.task = db[waiter.id].status,
                                !.err = (db[waiter.id].status = StatusFailed)]
    /\ UNCHANGED <<db, tasks, phase, workers, running, retrying, nextId>>

\* An EnqueueAndWait that cancels its task when the caller's context is done.
waitCtxDoneCancels ==
    /\ waiter.pc = "polling"
    /\ waiter' = [waiter EXCEPT !.pc = "returned", !.task = "nil", !.err = TRUE]
    /\ db' = [id \in DOMAIN db |->
                IF id \in CancelRows(waiter.id)
                THEN [db[id] EXCEPT !.status = StatusFailed, !.error = CancelledByUser]
                ELSE db[id]]
    /\ UNCHANGED <<tasks, phase, workers, running, retrying, nextId>>

\* EnqueueAndWait: <-ctx.Done()
waitCtxDone ==
    /\ waiter.pc = "polling"
    /\ waiter' = [waiter EXCEPT !.pc = "returned", !.task = "nil", !.err = TRUE]
    /\ UNCHANGED <<db, tasks, phase, workers, running, retrying, nextId>>

\* ------------------------------------------------------- history variables
hist == <<calls, recovered, lastErr>>

\* The ids of the tasks a step hands to a handler.
Invoked ==
    IF BagCardinality(running') > BagCardinality(running) THEN {Head(tasks).id} ELSE {}

\* Records, for a step of the queue, the handler invocations and the
\* resubmissions of restartPending.
Record ==
    /\ calls' = [id \in Ids |-> IF id \in Invoked THEN calls[id] + 1 ELSE calls[id]]
    /\ recovered' = recovered \cup
          IF phase = "new" /\ phase' = "recovered"
          THEN {tasks'[i].id : i \in (Len(tasks) + 1)..Len(tasks')}
          ELSE {}

\* Records the error a handler returned.
Returned(r, res) ==
    lastErr' = IF res = "ok" THEN lastErr ELSE [lastErr EXCEPT ![r.id] = res]

\* ---------------------------------------------------------- specifications

\* What a handler may return: success or one of the errors.
Results == {"ok"} \cup HandlerErrors

\* A client calls Enqueue.
Enqueues ==
    \E in \in Inputs, err \in {"", "task queue full"} : Enqueue(in[1], in[2], err)

\* A client calls CancelTask.
Cancels ==
    \E id \in Ids, err \in BOOLEAN : CancelTask(id, err)

\* The steps of Start.
Starting ==
    \/ restartPending
    \/ Start

\* The steps of the queue's goroutines.
Working ==
    \/ worker
    \/ \E r \in BagToSet(running), res \in Results : processTask(r, res)
    \/ \E t \in BagToSet(retrying) : retry(t)

\* The queue with its clients across process crashes.
Next ==
    /\ Enqueues \/ Cancels \/ Starting \/ Working \/ Crash
    /\ UNCHANGED hist
    /\ UNCHANGED files
    /\ UNCHANGED conn

Spec == Init /\ [][Next]_vars

\* One process run without cancellations, with the history of each task
\* recorded.
NextHist ==
    /\ \/ (Enqueues \/ Starting \/ worker) /\ UNCHANGED lastErr
       \/ \E r \in BagToSet(running), res \in Results :
             processTask(r, res) /\ Returned(r, res)
       \/ \E t \in BagToSet(retrying) : retry(t) /\ UNCHANGED lastErr
    /\ Record
    /\ UNCHANGED files
    /\ UNCHANGED conn

SpecHist == Init /\ [][NextHist]_vars

\* The queue after NewQueue and Start on an empty store.
InitStartedQueue ==
    /\ db = <<>>
    /\ tasks = <<>>
    /\ phase = "started"
    /\ workers = StartedWorkers
    /\ running = EmptyBag
    /\ retrying = EmptyBag
    /\ nextId = 1
    /\ waiter = WaiterIdle
    /\ calls = [id \in Ids |-> 0]
    /\ recovered = {}
    /\ lastErr = [id \in Ids |-> ""]
    /\ conn = NoConn

\* The started queue with no file and no file operation yet.
InitStarted ==
    /\ InitStartedQueue
    /\ InitFiles

\* A started queue whose tasks all come from a caller of EnqueueAndWait.
NextWait ==
    /\ \/ \E in \in Inputs : EnqueueAndWait(in[1], in[2])
       \/ waitTick
       \/ waitCtxDone
       \/ Cancels
       \/ Working
    /\ UNCHANGED hist
    /\ UNCHANGED files
    /\ UNCHANGED conn

SpecWait == InitStarted /\ [][NextWait]_vars

TypeOK ==
    /\ DOMAIN db = 1..(nextId - 1)
    /\ Len(tasks) <= ChanCap
    /\ phase \in {"new", "recovered", "started"}
    /\ workers \in 0..(MaxWorkers + 1)

\* ------------------------------------------------------------------ claims

\* Every *Task the process holds: in the channel, in a handler, in a retry.
InMemory ==
    {tasks[i] : i \in 1..Len(tasks)} \cup BagToSet(running) \cup BagToSet(retrying)

Unregistered(id) == db[id].type \notin handlers

\* C1: once a task's persisted status is completed or failed, no later step
\* changes it.
C1_TerminalStatusIsFinal ==
    [][\A id \in DOMAIN db :
          db[id].status \in {StatusCompleted, StatusFailed}
             => db'[id].status = db[id].status]_vars

\* C2: in every reachable state every task has retry_count <= max_retries, in
\* the store and in every copy the process holds.
C2_RetryCountBounded ==
    /\ \A id \in DOMAIN db : db[id].retry_count <= db[id].max_retries
    /\ \A t \in InMemory : t.retry_count <= db[t.id].max_retries

\* After a crash, restartPending has resubmitted a task with the retry_count
\* it read from the store, and that count is at the bound.
C2_Witness ==
    \E id \in DOMAIN db :
       /\ db[id].retry_count = db[id].max_retries
       /\ \E i \in 1..Len(tasks) :
             /\ tasks[i].id = id
             /\ ~tasks[i].started_at
             /\ tasks[i].retry_count = db[id].max_retries

\* A task with a handler of which restartPending made no second copy.
Undisturbed(id) ==
    /\ db[id].type \in handlers
    /\ id \notin recovered

C4_WaitReturnsTerminal ==
    waiter.pc = "returned" =>
       /\ waiter.task \in {"nil", StatusCompleted, StatusFailed}
       /\ waiter.task = "nil" => waiter.err

\* EnqueueAndWait returned a task that failed after its retries.
C4_Witness ==
    /\ waiter.pc = "returned"
    /\ waiter.task = StatusFailed
    /\ db[waiter.id].retry_count = db[waiter.id].max_retries
    /\ db[waiter.id].error \in HandlerErrors

\* The channel is full and the newest row is pending while the process holds
\* no copy of it, though it holds one of every older live task: the last
\* Enqueue was rejected.
C5_Witness ==
    /\ Len(tasks) = ChanCap
    /\ nextId > 1
    /\ db[nextId - 1].status = StatusPending
    /\ \A t \in InMemory : t.id # nextId - 1
    /\ \A id \in DOMAIN db :
          (id < nextId - 1 /\ db[id].status \in {StatusPending, StatusRunning})
             => \E t \in InMemory : t.id = id

\* C5: Enqueue never blocks: whenever a caller can call it, it can complete;
\* it persists a pending row, and it returns the capacity error at once and
\* leaves the channel as it is exactly when the channel is full.
C5_EnqueueNeverBlocks ==
    /\ [](nextId <= MaxTasks =>
            ENABLED (\E in \in Inputs, err \in {"", "task queue full"} :
                        Enqueue(in[1], in[2], err)))
    /\ [][\A in \in Inputs, err \in {"", "task queue full"} :
             Enqueue(in[1], in[2], err) =>
                /\ nextId \in DOMAIN db' /\ nextId \notin DOMAIN db
                /\ db'[nextId].status = StatusPending
                /\ IF Len(tasks) = ChanCap
                   THEN err = "task queue full" /\ tasks' = tasks
                   ELSE /\ err = ""
                        /\ Len(tasks') = Len(tasks) + 1
                        /\ tasks'[Len(tasks')].id = nextId]_vars

\* C6: the number of tasks whose handler is executing is at most the
\* configured number of workers.
C6_BoundedConcurrency == BagCardinality(running) <= MaxWorkers

\* Every worker is in a handler while another task waits in the channel.
C6_Witness ==
    /\ BagCardinality(running) = MaxWorkers
    /\ tasks # <<>>

\* C7: the task handed to a worker has a priority at least that of every task
\* still waiting in the channel (equal priorities leave in channel order).
C7_PriorityDispatch ==
    [][(tasks # <<>> /\ tasks' = Tail(tasks) /\ workers > 0 /\ workers' = workers) =>
          \A i \in 2..Len(tasks) :
             db[tasks[i].id].priority <= db[Head(tasks).id].priority]_vars

\* C8: restartPending leaves every pending or running task in the channel,
\* resubmits in the order priority descending then creation time ascending,
\* and no worker has been launched yet.
C8_RecoversEveryTask ==
    [][(phase = "new" /\ phase' = "recovered") =>
          /\ \A id \in DOMAIN db :
                db[id].status \in {StatusPending, StatusRunning}
                   => \E i \in 1..Len(tasks') : tasks'[i].id = id
          /\ \A i, j \in (Len(tasks) + 1)..Len(tasks') :
                i < j => Before(db, tasks'[i].id, tasks'[j].id)
          /\ workers' = 0]_vars

\* C9: CancelTask on a pending or running task returns nil and sets the row to
\* failed with the error 'cancelled by user' and a finished_at time; on any
\* other id it returns an error; and a step that changes nothing but the
\* store is such a cancellation of a pending or running task, so the store
\* is left as it is in every other case.
C9_CancelTask ==
    /\ [](\A id \in Ids :
            IF id \in DOMAIN db /\ db[id].status \in {StatusPending, StatusRunning}
            THEN ENABLED CancelTask(id, FALSE) /\ ~ENABLED CancelTask(id, TRUE)
            ELSE ENABLED CancelTask(id, TRUE) /\ ~ENABLED CancelTask(id, FALSE))
    /\ [][(tasks' = tasks /\ running' = running /\ retrying' = retrying
           /\ phase' = phase /\ nextId' = nextId /\ waiter' = waiter) =>
             \E id \in DOMAIN db :
                /\ db[id].status \in {StatusPending, StatusRunning}
                /\ db' = [db EXCEPT ![id] = [@ EXCEPT !.status = StatusFailed,
                                                      !.error = "cancelled by user",
                                                      !.finished_at = TRUE]]]_vars

\* A task cancelled while its handler is running.
C9_Witness ==
    \E r \in BagToSet(running) :
       /\ db[r.id].status = StatusFailed
       /\ db[r.id].error = "cancelled by user"
       /\ db[r.id].finished_at

\* C10: a task whose type has no handler is failed by the worker that takes
\* it, with the error naming the type, without a handler invocation, without
\* a retry and with retry_count unchanged.
C10_NoHandlerFails ==
    /\ [](\A id \in DOMAIN db :
            Unregistered(id) =>
               /\ db[id].status \in {StatusPending, StatusFailed}
               /\ db[id].retry_count = 0
               /\ ~db[id].started_at
               /\ \A t \in BagToSet(running) \cup BagToSet(retrying) : t.id # id
               /\ db[id].status = StatusFailed =>
                     db[id].error \in {"no handler for task type: " \o db[id].type,
                                       "cancelled by user"})
    /\ [][(tasks # <<>> /\ tasks' = Tail(tasks) /\ workers > 0 /\ workers' = workers
           /\ Unregistered(Head(tasks).id)) =>
             LET id == Head(tasks).id
             IN /\ db'[id].status = StatusFailed
                /\ db'[id].error = "no handler for task type: " \o db[id].type
                /\ db'[id].retry_count = db[id].retry_count
                /\ running' = running
                /\ retrying' = retrying]_vars

\* A task without a handler that a worker took and failed.
C10_Witness ==
    \E id \in DOMAIN db :
       /\ Unregistered(id)
       /\ db[id].status = StatusFailed
       /\ db[id].error = "no handler for task type: " \o db[id].type

\* The status changes of the worker loop the transition rule allows.
WorkerTransitions ==
    {<<StatusPending, StatusRunning>>, <<StatusRunning, StatusCompleted>>,
     <<StatusRunning, StatusPending>>, <<StatusRunning, StatusFailed>>}

\* A step in which a worker receives a task from the channel and writes it.
DequeueStep ==
    /\ tasks # <<>>
    /\ tasks' = Tail(tasks)
    /\ BagCardinality(running') > BagCardinality(running) \/ db' # db

\* A step in which a processTask call ends after its handler has returned.
ReturnStep ==
    /\ phase' = phase
    /\ BagCardinality(running') < BagCardinality(running)

\* The ids of the tasks a step of the worker loop writes.
Written ==
    IF DequeueStep THEN {Head(tasks).id}
    ELSE IF ReturnStep THEN {r.id : r \in BagToSet(running (-) running')}
    ELSE {}

\* C28: every status change the worker loop makes to a task is one of
\* pending -> running, running -> completed, running -> pending (retry) and
\* running -> failed, and a task written as running has started_at set: no
\* task goes from pending to completed or failed in a step of the worker.
C28_WorkerTransitions ==
    [][\A id \in Written :
          /\ db'[id].status # db[id].status =>
                <<db[id].status, db'[id].status>> \in WorkerTransitions
          /\ db'[id].status = StatusRunning => db'[id].started_at]_vars

\* A step in which processTask launches the deferred resubmission of a task.
DeferStep == BagCardinality(retrying') > BagCardinality(retrying)

\* The task a step defers.
Deferred == CHOOSE t \in BagToSet(retrying' (-) retrying) : TRUE

\* A step of a started queue that sends a task that was retried before into
\* the channel.
ResubmitStep ==
    /\ phase = "started"
    /\ phase' = phase
    /\ Len(tasks') = Len(tasks) + 1
    /\ tasks'[Len(tasks')].retry_count > 0

\* C29: a retry does not occupy a worker: the step of processTask that
\* defers a failed task persists it as pending with the retry_count of the
\* task incremented, ends its handler call, which had retries left, and
\* frees its worker, and leaves the channel as it is; a retried task enters the channel only
\* in a later step of its own, which takes it from the deferred
\* resubmissions and touches no worker and no row.
C29_RetryFreesWorker ==
    [][/\ DeferStep =>
             LET t == Deferred
             IN /\ db'[t.id].status = StatusPending
                /\ db'[t.id].retry_count = t.retry_count
                /\ \E r \in BagToSet(running) :
                      /\ r.id = t.id
                      /\ r.retry_count < db[t.id].max_retries
                      /\ t.retry_count = r.retry_count + 1
                      /\ running' = running (-) SetToBag({r})
                /\ BagCardinality(running') < workers
                /\ tasks' = tasks
       /\ ResubmitStep =>
             LET t == tasks'[Len(tasks')]
             IN /\ BagIn(t, retrying)
                /\ retrying' = retrying (-) SetToBag({t})
                /\ UNCHANGED <<db, running>>]_vars

\* A failed task waits for its resubmission, persisted as pending with one
\* retry counted, while no worker is in a handler and the channel is empty.
C29_Witness ==
    /\ running = EmptyBag
    /\ tasks = <<>>
    /\ \E t \in BagToSet(retrying) :
          /\ db[t.id].status = StatusPending
          /\ db[t.id].retry_count = 1

\* A step in which Enqueue returns the capacity error: it has drawn an id and
\* sent nothing.
RejectStep == nextId' = nextId + 1 /\ tasks' = tasks

\* C31: when Enqueue returns the capacity error the queue is as before the
\* call: the durable store holds no row for the rejected task.
C31_RejectedLeavesNoRow ==
    [][RejectStep => db' = db]_vars

\* The row of the task is failed with the sentinel error of CancelTask.
Cancelled(id) ==
    db[id].status = StatusFailed /\ db[id].error = CancelledByUser

\* A step in which a worker hands the task at the head of the channel to its
\* handler.
InvokeStep ==
    /\ tasks # <<>>
    /\ tasks' = Tail(tasks)
    /\ BagCardinality(running') > BagCardinality(running)

\* C32: a task that CancelTask marked failed while it waited in the channel
\* or for its retry never has its handler invoked afterwards: no worker
\* hands a task to its handler whose row is cancelled.
C32_CancelledNeverInvoked ==
    [][InvokeStep => ~Cancelled(Head(tasks).id)]_vars

\* The number of copies of task id in the channel.
InChannel(id) == Cardinality({i \in 1..Len(tasks) : tasks[i].id = id})

\* The number of handler invocations of task id in progress.
InHandler(id) ==
    LET S == {r \in BagToSet(running) : r.id = id}
    IN IF S = {} THEN 0
       ELSE BagCardinality([r \in S |-> CopiesIn(r, running)])

\* C33: within one process run no task id is in the channel more than once
\* and none is in the handlers of two workers at the same time, Enqueue
\* calls before Start included.
C33_NoDuplicateDispatch ==
    \A id \in DOMAIN db : InChannel(id) <= 1 /\ InHandler(id) <= 1

\* ------------------------------------------------------------- termination

\* Enqueue on a started queue whose channel has room: the task is accepted.
liveEnqueue ==
    /\ phase = "started"
    /\ nextId <= LiveTasks
    /\ Len(tasks) < ChanCap
    /\ db' = db @@ (nextId :> NewRow(TaskClipboardSummarize, 0))
    /\ nextId' = nextId + 1
    /\ tasks' = Append(tasks, Task(nextId, 0, FALSE, FALSE))
    /\ UNCHANGED <<phase, workers, running, retrying, waiter>>
    /\ UNCHANGED hist

\* The process crashes; it does so until a Start has recovered tasks.
liveCrash ==
    /\ phase = "started"
    /\ recovered = {}
    /\ Crash
    /\ UNCHANGED hist

\* Start in the new process, the resubmitted tasks being recorded.
liveRestart ==
    /\ restartPending
    /\ recovered' = recovered \cup
          {tasks'[i].id : i \in (Len(tasks) + 1)..Len(tasks')}
    /\ UNCHANGED <<calls, lastErr>>

liveStart == Start /\ UNCHANGED hist

\* A worker takes a task from the channel.
liveWorker == worker /\ UNCHANGED hist

\* The handler invocation of task id returns.
liveReturn(id) ==
    /\ \E r \in BagToSet(running), res \in Results :
          r.id = id /\ processTask(r, res)
    /\ UNCHANGED hist

\* A deferred resubmission sends its task.
liveRetry ==
    /\ \E t \in BagToSet(retrying) : retry(t)
    /\ UNCHANGED hist

NextLive ==
    /\ \/ liveEnqueue
       \/ liveCrash
       \/ liveRestart
       \/ liveStart
       \/ liveWorker
       \/ \E id \in 1..LiveTasks : liveReturn(id)
       \/ liveRetry
    /\ UNCHANGED files
    /\ UNCHANGED conn

\* Start runs to its end, workers and deferred resubmissions are scheduled
\* and every handler invocation returns.
Fairness ==
    /\ WF_vars(liveRestart /\ UNCHANGED files /\ UNCHANGED conn)
    /\ WF_vars(liveStart /\ UNCHANGED files /\ UNCHANGED conn)
    /\ WF_vars(liveWorker /\ UNCHANGED files /\ UNCHANGED conn)
    /\ WF_vars(liveRetry /\ UNCHANGED files /\ UNCHANGED conn)
    /\ \A id \in 1..LiveTasks :
          WF_vars(liveReturn(id) /\ UNCHANGED files /\ UNCHANGED conn)

SpecLive == InitStarted /\ [][NextLive]_vars /\ Fairness

\* The task has a terminal status.
Terminal(id) ==
    IF id \in DOMAIN db
    THEN db[id].status \in {StatusCompleted, StatusFailed}
    ELSE FALSE

\* C30: every task that Enqueue accepted on a started queue eventually has
\* the status completed or failed, when every handler invocation returns and
\* workers, deferred resubmissions and Start are scheduled fairly, a process
\* crash followed by Start included.
C30_AcceptedTaskTerminates ==
    \A id \in 1..LiveTasks : (id \in DOMAIN db) ~> Terminal(id)

\* ------------------------------------------- EnqueueAndWait given up by its caller

\* The steps of NextWait that the queue's own goroutines take.
waitWorker == worker /\ UNCHANGED <<hist, files, conn>>
waitReturn(id) ==
    /\ \E r \in BagToSet(running), res \in Results : r.id = id /\ processTask(r, res)
    /\ UNCHANGED <<hist, files, conn>>
waitRetry ==
    /\ \E t \in BagToSet(retrying) : retry(t)
    /\ UNCHANGED <<hist, files, conn>>

\* Workers and deferred resubmissions are scheduled and every handler
\* invocation returns; callers of EnqueueAndWait and CancelTask are free.
WaitFairness ==
    /\ WF_vars(waitWorker)
    /\ WF_vars(waitRetry)
    /\ \A id \in Ids : WF_vars(waitReturn(id))

SpecWaitLive == InitStarted /\ [][NextWait]_vars /\ WaitFairness

\* EnqueueAndWait returns ctx.Err(): it was polling and returns no task.
CtxDoneStep ==
    /\ waiter.pc = "polling"
    /\ waiter'.pc = "returned"
    /\ waiter'.task = "nil"

\* C39: when EnqueueAndWait returns because the caller's context is done,
\* the task it enqueued is neither cancelled nor removed: the return changes
\* neither the task's row nor the channel nor the running handlers nor the
\* deferred resubmissions, and the task a caller waits for, whether or not
\* the caller gives up, reaches the status completed or failed.
C39_AbandonedWaitKeepsTask ==
    /\ [][CtxDoneStep =>
             /\ db' = db
             /\ tasks' = tasks
             /\ running' = running
             /\ retrying' = retrying
             /\ waiter'.id = waiter.id]_vars
    /\ \A id \in Ids :
          (waiter.pc = "polling" /\ waiter.id = id) ~> Terminal(id)

\* The caller gave up on a task (EnqueueAndWait returned no task) and the
\* task has completed all the same.
C39_Witness ==
    /\ waiter.pc = "returned"
    /\ waiter.task = "nil"
    /\ waiter.id \in DOMAIN db
    /\ db[waiter.id].status = StatusCompleted
    /\ db[waiter.id].finished_at

\* ----------------------------------------------------------------------- Stop

\* q.ctx is cancelled: Stop has called q.cancel().
ctxDone == phase \in {"cancelled", "closed", "stopped"}

\* Stop has closed q.tasks.
closed == phase \in {"closed", "stopped"}

\* The process has panicked with "send on closed channel".
Panicked == phase = "panic"

\* Stop: q.cancel()
stopCancel ==
    /\ phase = "started"
    /\ phase' = "cancelled"
    /\ UNCHANGED <<db, tasks, workers, running, retrying, nextId, waiter>>

\* Stop: close(q.tasks)
stopClose ==
    /\ phase = "cancelled"
    /\ phase' = "closed"
    /\ UNCHANGED <<db, tasks, workers, running, retrying, nextId, waiter>>

\* Stop: q.wg.Wait() returns when every worker goroutine has ended, then
\* q.db.Close().
stopWait ==
    /\ phase = "closed"
    /\ workers = 0
    /\ phase' = "stopped"
    /\ UNCHANGED <<db, tasks, workers, running, retrying, nextId, waiter>>

\* Enqueue by a caller that runs beside Stop: the INSERT, then the select
\* with the send, which panics on the closed channel.
stopEnqueue(type, priority) ==
    /\ phase \in {"started", "cancelled", "closed"}
    /\ IF closed
       THEN /\ nextId <= MaxTasks
            /\ db' = db @@ (nextId :> NewRow(type, priority))
            /\ nextId' = nextId + 1
            /\ phase' = "panic"
            /\ UNCHANGED <<tasks, workers, running, retrying, waiter>>
       ELSE \E err \in {"", "task queue full"} : Enqueue(type, priority, err)

\* A worker at `for task := range q.tasks`: it receives a task, also from
\* the closed channel, and returns when q.ctx is done; it leaves the loop
\* when the channel is closed and empty.
stopWorker ==
    /\ ~Panicked
    /\ BagCardinality(running) < workers
    /\ IF tasks # <<>>
       THEN IF ctxDone
            THEN /\ tasks' = Tail(tasks)
                 /\ workers' = workers - 1
                 /\ UNCHANGED <<db, phase, running, retrying, nextId, waiter>>
            ELSE worker
       ELSE /\ closed
            /\ workers' = workers - 1
            /\ UNCHANGED <<db, tasks, phase, running, retrying, nextId, waiter>>

\* A handler returns.
stopReturn ==
    /\ ~Panicked
    /\ \E r \in BagToSet(running), res \in Results : processTask(r, res)

\* The deferred goroutine of a retry after its sleep: the select between the
\* send and <-q.ctx.Done(); a send on the closed channel is ready and panics.
stopRetry(t) ==
    /\ ~Panicked
    /\ BagIn(t, retrying)
    /\ \/ ~closed /\ retry(t)
       \/ /\ ctxDone
          /\ retrying' = retrying (-) SetToBag({t})
          /\ UNCHANGED <<db, tasks, phase, workers, running, nextId, waiter>>
       \/ /\ closed
          /\ retrying' = retrying (-) SetToBag({t})
          /\ phase' = "panic"
          /\ UNCHANGED <<db, tasks, workers, running, nextId, waiter>>

NextStop ==
    /\ \/ stopCancel
       \/ stopClose
       \/ stopWait
       \/ \E in \in Inputs : stopEnqueue(in[1], in[2])
       \/ stopWorker
       \/ stopReturn
       \/ \E t \in BagToSet(retrying) : stopRetry(t)
    /\ UNCHANGED hist
    /\ UNCHANGED files
    /\ UNCHANGED conn

SpecStop == InitStarted /\ [][NextStop]_vars

\* C34: Stop is safe under every interleaving with the work in flight: no
\* deferred resubmission and no Enqueue sends on the channel after Stop has
\* closed it (such a send panics), and Stop has returned only when no
\* handler is running.
C34_StopSafe ==
    /\ ~Panicked
    /\ phase = "stopped" => running = EmptyBag

\* ------------------------------------------------- file operations on their own

\* The directories, file names and paths explored.
Dirs == {"in", "out"}
Bases == {"a"} \cup {"a-" \o ToString(i) : i \in 1..(SuffixLimit - 1)}
Names == {[base |-> b, ext |-> ".txt"] : b \in Bases}
Paths == {Path(d, n.base, n.ext) : d \in Dirs, n \in Names}

\* The content a file starts with: it tells the files apart.
Content(p) == p.dir \o "/" \o p.base \o p.ext

\* Outcomes of the system calls of one fileops call.
IOs == {"ok", "mkdir", "rename"}

\* Any set of files present before the daemon touches them.
InitAnyFiles ==
    /\ \E S \in SUBSET Paths : fs = [p \in S |-> Content(p)]
    /\ ledger = {}
    /\ clock = 1
    /\ fret = NoCall
    /\ pipe = PipeIdle

\* A caller calls MoveFile(src, dst).
CallMoveFile(src, dst, io) ==
    /\ clock <= MaxMoves
    /\ LET r == MoveFile(fs, src, dst, io)
       IN /\ fs' = r.fs
          /\ fret' = [call |-> "MoveFile", src |-> src, dst |-> dst,
                      path |-> r.path, err |-> r.err]
    /\ clock' = clock + 1
    /\ UNCHANGED <<ledger, pipe>>

\* A caller calls RenameFile(src, newName).
CallRenameFile(src, newName, io) ==
    /\ clock <= MaxMoves
    /\ LET r == RenameFile(fs, src, newName, io)
       IN /\ fs' = r.fs
          /\ fret' = [call |-> "RenameFile", src |-> src,
                      dst |-> Path(src.dir, newName.base, newName.ext),
                      path |-> r.path, err |-> r.err]
    /\ clock' = clock + 1
    /\ UNCHANGED <<ledger, pipe>>

NextMove ==
    /\ \/ \E src \in Paths, dst \in Paths, io \in IOs : CallMoveFile(src, dst, io)
       \/ \E src \in Paths, n \in Names, io \in IOs : CallRenameFile(src, n, io)
    /\ UNCHANGED queue
    /\ UNCHANGED hist
    /\ UNCHANGED conn

\* A queue not started, beside any set of files.
InitSpecMove ==
    /\ InitQueue
    /\ InitAnyFiles

SpecMove == InitSpecMove /\ [][NextMove]_vars

\* C18: MoveFile and RenameFile never replace an existing file: every file
\* other than the source that was present before the call is present and
\* unchanged after it, and a successful call places the file at the target
\* name when that is free and otherwise at the first free name among
\* base-1.ext, base-2.ext, ..., however many of these are taken.
C18_NeverReplaces ==
    [][fret'.call \in {"MoveFile", "RenameFile"} /\ clock' = clock + 1 =>
          /\ \A p \in DOMAIN fs \ {fret'.src} : p \in DOMAIN fs' /\ fs'[p] = fs[p]
          /\ fret'.err = "" =>
                /\ fret'.path \notin DOMAIN fs \ {fret'.src}
                /\ \/ fret'.path = fret'.dst
                   \/ \E i \in 1..Cardinality(DOMAIN fs) :
                         /\ fret'.path = Candidate(fret'.dst, i)
                         /\ fret'.dst \in DOMAIN fs
                         /\ \A j \in 1..(i - 1) : Candidate(fret'.dst, j) \in DOMAIN fs
                /\ fs'[fret'.path] = fs[fret'.src]]_vars

\* ------------------------------------------------------------- the Undo Ledger

OpMove == "move"
OpRename == "rename"

\* The task ids and paths of the ledger rows explored.
TaskIDs == {"task1", "task2"}
PathA == Path("in", "a", ".txt")
PathB == Path("in", "b", ".txt")
PathC == Path("out", "b", ".txt")
UndoPaths == {PathA, PathB, PathC}

\* An Operation as a caller of Record builds it at time t.
Operation(t, taskID, orig, new) ==
    [id |-> t, task_id |-> taskID,
     type |-> IF orig.dir = new.dir THEN OpRename ELSE OpMove,
     original_path |-> orig, new_path |-> new, created_at |-> t]

\* Record: INSERT INTO file_operations; id is the primary key.
RecordOp(l, op) ==
    IF \E o \in l : o.id = op.id THEN l ELSE l \cup {op}

\* WHERE task_id = ?
TaskOps(l, taskID) == {o \in l : o.task_id = taskID}

\* A query that returns the oldest operation first.
FirstOfOldest(S) == CHOOSE x \in S : \A y \in S : x.created_at <= y.created_at

\* The first row of ORDER BY created_at DESC.
First(S) == CHOOSE x \in S : \A y \in S : x.created_at >= y.created_at

\* SELECT ... WHERE task_id = ? ORDER BY created_at DESC
RECURSIVE OrderOps(_)
OrderOps(S) ==
    IF S = {} THEN <<>>
    ELSE <<First(S)>> \o OrderOps(S \ {First(S)})

\* No fileops call is in progress.
FileIdle == IF fret.call = "Undo" THEN fret.pc = "done" ELSE TRUE

\* A caller records an operation, any ledger content being possible.
CallRecord(taskID, orig, new) ==
    /\ FileIdle
    /\ Cardinality(ledger) < MaxOps
    /\ clock <= MaxOps
    /\ ledger' = RecordOp(ledger, Operation(clock, taskID, orig, new))
    /\ clock' = clock + 1
    /\ fret' = [call |-> "Record"]
    /\ UNCHANGED <<fs, pipe>>

\* Undo(taskID) up to the loop: the query. again tells that the call follows
\* a finished Undo of the same task with nothing in between; purged keeps the
\* rows a Cleanup right before the call has deleted; was and first keep the
\* files and the rows the call started with.
undoQuery(taskID) ==
    /\ FileIdle
    /\ fret' = [call |-> "Undo", pc |-> "loop", task |-> taskID,
                rows |-> OrderOps(TaskOps(ledger, taskID)),
                undone |-> 0, ids |-> {}, err |-> "",
                again |-> IF fret.call = "Undo" THEN fret.task = taskID ELSE FALSE,
                purged |-> IF fret.call = "Cleanup" THEN fret.purged ELSE {},
                was |-> fs, first |-> TaskOps(ledger, taskID)]
    /\ UNCHANGED <<fs, ledger, clock, pipe>>

\* The rows the delete loop of Undo removes: those of the collected ids.
Purged(l, ids) == {o \in l : o.id \notin ids}

\* An Undo that counts every row it has read.
CountedAll(n, moved) == n + 1

\* undone++ only after the file was moved back.
Counted(n, moved) == IF moved THEN n + 1 ELSE n

\* One iteration of the loop of Undo on the next row; io is the outcome of
\* the system calls it makes.
undoRow(io) ==
    /\ fret.call = "Undo" /\ fret.pc = "loop" /\ fret.rows # <<>>
    /\ LET o == Head(fret.rows)
       IN IF Exists(fs, o.new_path)
          THEN IF io = "mkdir"
               THEN /\ fret' = [fret EXCEPT !.pc = "done",
                                            !.err = "create directory for undo"]
                    /\ fs' = fs
               ELSE IF io = "rename"
               THEN /\ fret' = [fret EXCEPT !.pc = "done", !.err = "undo move"]
                    /\ fs' = fs
               ELSE /\ fs' = osRename(fs, o.new_path, o.original_path)
                    /\ fret' = [fret EXCEPT !.rows = Tail(@),
                                            !.undone = Counted(@, TRUE),
                                            !.ids = @ \cup {o.id}]
          ELSE /\ io = "ok"
               /\ fs' = fs
               /\ fret' = [fret EXCEPT !.rows = Tail(@),
                                       !.undone = Counted(@, FALSE),
                                       !.ids = @ \cup {o.id}]
    /\ UNCHANGED <<ledger, clock, pipe>>

\* The end of Undo: delete the collected rows and return.
undoDelete ==
    /\ fret.call = "Undo" /\ fret.pc = "loop" /\ fret.rows = <<>>
    /\ ledger' = Purged(ledger, fret.ids)
    /\ fret' = [fret EXCEPT !.pc = "done"]
    /\ UNCHANGED <<fs, clock, pipe>>

\* Any set of files at the paths the ledger rows name.
InitUndo ==
    /\ \E S \in SUBSET UndoPaths : fs = [p \in S |-> Content(p)]
    /\ ledger = {}
    /\ clock = 1
    /\ fret = NoCall
    /\ pipe = PipeIdle

NextUndo ==
    /\ \/ \E t \in TaskIDs, orig \in UndoPaths :
             \E new \in UndoPaths \ {orig} : CallRecord(t, orig, new)
       \/ \E t \in TaskIDs : undoQuery(t)
       \/ \E io \in IOs : undoRow(io)
       \/ undoDelete
    /\ UNCHANGED queue
    /\ UNCHANGED hist
    /\ UNCHANGED conn

\* A queue not started, beside the files of an empty ledger.
InitSpecUndo ==
    /\ InitQueue
    /\ InitUndo

SpecUndo == InitSpecUndo /\ [][NextUndo]_vars

\* An Undo call has returned.
UndoReturned == IF fret.call = "Undo" THEN fret.pc = "done" ELSE FALSE

\* The task of the call had exactly the operations o1, then o2, recorded in
\* this order, o2 moving on the file o1 had placed, and the file is where o2
\* left it.
Chain(o1, o2) ==
    /\ fret.first = {o1, o2}
    /\ o1.created_at < o2.created_at
    /\ o1.new_path = o2.original_path
    /\ o1.original_path # o2.new_path
    /\ o2.new_path \in DOMAIN fret.was

\* C14: Undo processes the most recent operation first: for a task with the
\* operations A -> B and then B -> C and the file at C, an Undo without I/O
\* error leaves the file at A, nothing at B and C, and returns undone = 2.
C14_UndoMostRecentFirst ==
    UndoReturned /\ fret.err = "" =>
       \A o1 \in fret.first, o2 \in fret.first :
          Chain(o1, o2) =>
             /\ fret.undone = 2
             /\ o1.original_path \in DOMAIN fs
             /\ fs[o1.original_path] = fret.was[o2.new_path]
             /\ o1.new_path \notin DOMAIN fs
             /\ o2.new_path \notin DOMAIN fs

\* An Undo of a two-operation chain has returned 2.
C14_Witness ==
    /\ UndoReturned
    /\ fret.err = ""
    /\ fret.undone = 2
    /\ \E o1 \in fret.first, o2 \in fret.first : Chain(o1, o2)

\* A step of the loop of Undo.
UndoRowStep ==
    IF fret.call = "Undo" THEN fret.pc = "loop" /\ fret.rows # <<>> /\ fret' # fret
    ELSE FALSE

\* The step with which an Undo returns without error.
UndoDeleteStep ==
    IF fret.call = "Undo"
    THEN fret.pc = "loop" /\ fret'.call = "Undo" /\ fret'.pc = "done" /\ fret'.err = ""
    ELSE FALSE

\* C15: in an Undo pass without I/O error, each operation is reversed (the
\* file at new_path is moved to original_path and the count goes up by one)
\* if and only if a file exists at new_path when the operation is processed;
\* otherwise it is skipped and not counted; and when the pass returns, all
\* rows of the task, the skipped ones too, are deleted and no other row is.
C15_UndoRestoresExisting ==
    [][/\ UndoRowStep /\ fret'.err = "" =>
             LET o == Head(fret.rows)
             IN IF o.new_path \in DOMAIN fs
                THEN /\ o.original_path \in DOMAIN fs'
                     /\ fs'[o.original_path] = fs[o.new_path]
                     /\ o.new_path \notin DOMAIN fs'
                     /\ \A p \in DOMAIN fs \ {o.new_path, o.original_path} :
                           p \in DOMAIN fs' /\ fs'[p] = fs[p]
                     /\ fret'.undone = fret.undone + 1
                ELSE /\ fs' = fs
                     /\ fret'.undone = fret.undone
       /\ UndoDeleteStep =>
             /\ ledger' = ledger \ fret.first
             /\ TaskOps(ledger', fret.task) = {}
             /\ fret'.undone <= Cardinality(fret.first)]_vars

\* An Undo has returned after reversing one operation and skipping another,
\* and no row of the task is left.
C15_Witness ==
    /\ UndoReturned
    /\ fret.err = ""
    /\ fret.undone = 1
    /\ Cardinality(fret.first) = 2
    /\ TaskOps(ledger, fret.task) = {}

\* C16: an Undo(taskId) that directly follows an Undo of the same task
\* returns undone = 0 and moves no file, and an Undo of a task without
\* ledger rows returns 0 without error.
C16_UndoIdempotent ==
    /\ (IF fret.call = "Undo" THEN fret.again ELSE FALSE) =>
          /\ fret.undone = 0
          /\ fs = fret.was
    /\ (UndoReturned /\ fret.first = {}) =>
          /\ fret.undone = 0
          /\ fret.err = ""

\* C17: an Undo pass aborted by an I/O error has consumed the rows of its
\* task: when it returns with the error, the ledger holds no row of the task.
C17_UndoAtMostOnce ==
    (UndoReturned /\ fret.err # "") => TaskOps(ledger, fret.task) = {}

\* ------------------------------------------------------------------- Cleanup

\* The last instant of a run.
MaxTime == MaxOps + retention + 1

\* The cutoff of a Cleanup at time now: time.Now().Add(-u.retention).
Cutoff(now) == now - retention

\* A Cleanup that deletes the operations at the cutoff as well.
ExpiredAtCutoff(l, cutoff) == {o \in l : o.created_at <= cutoff}

\* The rows of DELETE FROM file_operations WHERE created_at < ?
Expired(l, cutoff) == {o \in l : o.created_at < cutoff}

\* Cleanup()
Cleanup ==
    /\ FileIdle
    /\ ledger' = ledger \ Expired(ledger, Cutoff(clock))
    /\ fret' = [call |-> "Cleanup", at |-> clock,
                purged |-> Expired(ledger, Cutoff(clock))]
    /\ UNCHANGED <<fs, clock, pipe>>

\* Time passes.
tick ==
    /\ clock < MaxTime
    /\ clock' = clock + 1
    /\ UNCHANGED <<fs, ledger, fret, pipe>>

\* The ledger with its callers over the retention window, without I/O errors.
NextClean ==
    /\ \/ \E t \in TaskIDs, orig \in UndoPaths :
             \E new \in UndoPaths \ {orig} : CallRecord(t, orig, new)
       \/ Cleanup
       \/ tick
       \/ \E t \in TaskIDs : undoQuery(t)
       \/ undoRow("ok")
       \/ undoDelete
    /\ UNCHANGED queue
    /\ UNCHANGED hist
    /\ UNCHANGED conn

\* A queue not started, beside an empty ledger and a file at every path.
InitSpecClean ==
    /\ InitQueue
    /\ fs = [p \in UndoPaths |-> Content(p)]
    /\ ledger = {}
    /\ clock = 1
    /\ fret = NoCall
    /\ pipe = PipeIdle

SpecClean == InitSpecClean /\ [][NextClean]_vars

\* A step that is a call of Cleanup.
CleanupStep ==
    /\ fret'.call = "Cleanup"
    /\ IF fret.call = "Cleanup" THEN fret' # fret \/ ledger' # ledger ELSE TRUE

\* A step that is the query of a call of Undo.
UndoQueryStep == FileIdle /\ fret'.call = "Undo" /\ fret'.pc = "loop"

\* C27: Cleanup deletes exactly the ledger operations whose created_at is
\* older than the retention window before now and leaves every newer
\* operation and every file in place; an operation purged by Cleanup does
\* not come back into the ledger and is not among the rows of a later Undo of
\* its task, which takes its rows from the ledger and counts no more than
\* its rows.
C27_CleanupPurgesOld ==
    [][/\ CleanupStep =>
             /\ \A o \in ledger :
                   o \in ledger' <=> ~(clock - o.created_at > retention)
             /\ ledger' \subseteq ledger
             /\ fs' = fs
       /\ \A o \in ledger' \ ledger : o.created_at = clock
       /\ fret'.call = "Undo" =>
             /\ fret'.first \cap fret'.purged = {}
             /\ UndoQueryStep => fret'.first \subseteq ledger
             /\ ~UndoQueryStep => fret'.first = fret.first
             /\ fret'.undone <= Cardinality(fret'.first)]_vars

\* A Cleanup purged one operation of a task and kept a newer one, and the
\* Undo of the task that followed has reversed the newer one only.
C27_Witness ==
    IF fret.call = "Undo"
    THEN /\ fret.pc = "done"
         /\ \E o \in fret.purged : o.task_id = fret.task
         /\ Cardinality(fret.first) = 1
         /\ fret.undone = 1
    ELSE FALSE

\* ---------------------------------------------------------------- ListByTask

\* The ids of the rows an Undo that has just returned had moved back: all the
\* rows it went through, when it counted each of them.
JustReversed ==
    IF fret.call = "Undo"
    THEN IF fret.pc = "done" /\ fret.undone = Cardinality(fret.ids)
         THEN fret.ids ELSE {}
    ELSE {}

\* SELECT ... WHERE task_id = ? ORDER BY created_at DESC, scanned into ops.
Listed(l, taskID) == OrderOps(TaskOps(l, taskID))

\* ListByTask(taskID). reversed keeps what the call right before, an Undo,
\* has moved back.
ListByTask(taskID) ==
    /\ FileIdle
    /\ fret' = [call |-> "ListByTask", task |-> taskID,
                ops |-> Listed(ledger, taskID),
                reversed |-> JustReversed]
    /\ UNCHANGED <<fs, ledger, clock, pipe>>

\* The ledger with its callers Record, Undo and ListByTask.
NextList ==
    /\ \/ \E t \in TaskIDs, orig \in UndoPaths :
             \E new \in UndoPaths \ {orig} : CallRecord(t, orig, new)
       \/ \E t \in TaskIDs : undoQuery(t)
       \/ \E io \in IOs : undoRow(io)
       \/ undoDelete
       \/ \E t \in TaskIDs : ListByTask(t)
    /\ UNCHANGED queue
    /\ UNCHANGED hist
    /\ UNCHANGED conn

\* A queue not started, beside the files of an empty ledger.
InitSpecList ==
    /\ InitQueue
    /\ InitUndo

SpecList == InitSpecList /\ [][NextList]_vars

\* The paths the operations in S name.
NamedPaths(S) == {o.original_path : o \in S} \cup {o.new_path : o \in S}

\* The files at the paths outside P are the same before and after the step.
SameOutside(P) ==
    \A p \in (DOMAIN fs \cup DOMAIN fs') \ P :
       p \in DOMAIN fs /\ p \in DOMAIN fs' /\ fs'[p] = fs[p]

\* The set of the operations in the sequence ops.
OpsIn(ops) == {ops[i] : i \in 1..Len(ops)}

\* C38: Undo(taskId) and Record act only on their own task: a step of Undo
\* changes only files at paths named by operations of taskId and deletes
\* only ledger rows of taskId; Record adds one row of its task and changes
\* nothing else; ListByTask(t) changes nothing and returns exactly the rows
\* of t in the ledger, most recent first, none of which an Undo right before
\* it has already moved back.
C38_LedgerCallsActOnOwnTask ==
    [][/\ fret'.call = "Undo" =>
             /\ ledger' \subseteq ledger
             /\ \A o \in ledger \ ledger' : o.task_id = fret'.task
             /\ SameOutside(NamedPaths(fret'.first))
       /\ fret'.call = "Record" =>
             /\ ledger \subseteq ledger'
             /\ Cardinality(ledger' \ ledger) <= 1
             /\ fs' = fs
       /\ fret'.call = "ListByTask" =>
             /\ ledger' = ledger /\ fs' = fs
             /\ OpsIn(fret'.ops) = {o \in ledger : o.task_id = fret'.task}
             /\ Len(fret'.ops) = Cardinality(OpsIn(fret'.ops))
             /\ \A i \in 1..Len(fret'.ops), j \in 1..Len(fret'.ops) :
                   i < j => fret'.ops[i].created_at >= fret'.ops[j].created_at
             /\ \A o \in OpsIn(fret'.ops) : o.id \notin fret'.reversed]_vars

\* ---------------------------------------------------------- the handler context

\* The empty task id (the empty string).
NoTaskID == 0

\* The context processTask hands to the handler of t:
\* context.WithTimeout(q.ctx, q.taskTimeout).
HandlerCtx(t) == [deadline |-> TRUE]

\* TaskIDFromContext(ctx): the task id the context carries, the empty id when
\* it carries none.
TaskIDFromContext(ctx) ==
    IF "task_id" \in DOMAIN ctx THEN ctx.task_id ELSE NoTaskID

\* C12: every handler invocation made by the queue receives a context from
\* which the id of exactly the task being processed is read: for every task a
\* worker is running the handler of, TaskIDFromContext of the handler's
\* context is that task's id, never empty and never the id of another task.
C12_TaskIDInContext ==
    \A r \in BagToSet(running) : TaskIDFromContext(HandlerCtx(r)) = r.id

\* ------------------------------------------------------------------ pipelines

\* A task payload: whether json.Unmarshal accepts it, and its "path".
Payload(valid, path) == [valid |-> valid, path |-> path]

\* The payloads explored: malformed, without a path, with the path of a file.
Payloads == {Payload(FALSE, NoPath), Payload(TRUE, NoPath), Payload(TRUE, PathA)}

\* A file name (filepath.Base) and the empty name.
Name(base, ext) == [base |-> base, ext |-> ext]
NoName == Name("", "")
Base(p) == Name(p.base, p.ext)

\* The names the rename and tag handlers may suggest for the file at p.
Suggested(p) == {NoName, Base(p), Name("b", ".txt")}

\* p.cfg: cfg.AutoFile.AutoMove and AutoRename, cfg.Screenshots.UseVision,
\* Rename and Destination ("" when none is configured).
Cfg(autoMove, autoRename, useVision, rename, destination) ==
    [AutoMove |-> autoMove, AutoRename |-> autoRename, UseVision |-> useVision,
     Rename |-> rename, Destination |-> destination]

\* The configurations explored.
Cfgs == {Cfg(TRUE, TRUE, TRUE, TRUE, "out"),
         Cfg(FALSE, FALSE, FALSE, TRUE, ""),
         Cfg(TRUE, FALSE, TRUE, FALSE, "out")}

\* pipelineStep{Name, Status}; Detail is left out.
pipelineStep(name, status) == [name |-> name, status |-> status]

NoTask == Task(0, 0, FALSE, FALSE)

\* The PipelineRunner with configuration cfg and no pipeline running: payload
\* is the payload column of the task, task the *Task of the invocation,
\* taskID, currentPath and steps the locals of the pipeline, dest and name
\* cr.Destination and rr.NewName or sr.SuggestedName, sub the outcome of the
\* last call to waitForSettle or to a handler, err the error the pipeline
\* returns; ran lists the steps the invocation executed, moved the moves and
\* renames that succeeded.
PipeNew(cfg) ==
    [pc |-> "idle", cfg |-> cfg, payload |-> Payload(FALSE, NoPath), kind |-> "",
     task |-> NoTask, taskID |-> NoTaskID, currentPath |-> NoPath,
     dest |-> NoPath, name |-> NoName, steps |-> <<>>, sub |-> "", err |-> "",
     ran |-> <<>>, moved |-> {}]

\* Pipelines whose screenshot variant moves the file before it is tagged.
StepsOfMoveFirst(kind) ==
    IF kind = TaskPipelineAutoFile
    THEN <<"settle", "classify", "move", "rename", "notify", "return">>
    ELSE <<"settle", "move", "tag", "rename", "notify", "return">>

\* The order of the steps of each pipeline.
StepsOf(kind) ==
    IF kind = TaskPipelineAutoFile
    THEN <<"settle", "classify", "move", "rename", "notify", "return">>
    ELSE <<"settle", "tag", "rename", "move", "notify", "return">>

\* The step that follows step name.
NextStep(kind, name) ==
    LET i == CHOOSE j \in 1..5 : StepsOf(kind)[j] = name
    IN StepsOf(kind)[i + 1]

\* Marks step name as executed by the invocation.
Ran(p, name) == [p EXCEPT !.ran = Append(@, name)]

\* A pipeline that records the failure as a step and goes on to notify.
FatalSwallowed(p, name) ==
    [p EXCEPT !.pc = "notify", !.steps = Append(@, pipelineStep(name, "error"))]

\* return nil, fmt.Errorf("name: %w", err)
Fatal(p, name) == [p EXCEPT !.pc = "return", !.err = name]

\* A pipeline that puts each ok step in front of the trace.
StepOkInFront(p, name) ==
    [p EXCEPT !.steps = <<pipelineStep(name, "ok")>> \o @,
              !.pc = NextStep(p.kind, name)]

\* steps = append(steps, pipelineStep{Name: name, Status: "ok"}), and on to
\* the next step.
StepOk(p, name) ==
    [p EXCEPT !.steps = Append(@, pipelineStep(name, "ok")),
              !.pc = NextStep(p.kind, name)]

\* A pipeline that returns the error of a failed move or rename.
StepErrorFatal(p, name) == Fatal(p, name)

\* steps = append(steps, pipelineStep{Name: name, Status: "error"}), and on
\* to the next step.
StepError(p, name) ==
    [p EXCEPT !.steps = Append(@, pipelineStep(name, "error")),
              !.pc = NextStep(p.kind, name)]

\* The condition of the step is false: on to the next step.
StepSkipped(p, name) == [p EXCEPT !.pc = NextStep(p.kind, name)]

\* if taskID != "" { p.undoMgr.Record(Operation{...}) }
Recorded(l, t, taskID, orig, new) ==
    IF taskID # NoTaskID THEN RecordOp(l, Operation(t, taskID, orig, new)) ELSE l

\* A pipeline that keeps working on the path it started the step with.
MovedPathKept(p, orig, new) ==
    [p EXCEPT !.moved = @ \cup {[original_path |-> orig, new_path |-> new]}]

\* currentPath = actualDst, after a move or rename that succeeded.
Moved(p, orig, new) ==
    [p EXCEPT !.currentPath = new,
              !.moved = @ \cup {[original_path |-> orig, new_path |-> new]}]

\* A client enqueues the one pipeline task of the run.
pipeEnqueue(type, payload) ==
    /\ db = <<>>
    /\ \E err \in {"", "task queue full"} : Enqueue(type, 0, err)
    /\ pipe' = [pipe EXCEPT !.payload = payload]
    /\ UNCHANGED <<fs, ledger, clock, fret>>

\* The handler is entered: the payload is parsed and the task id read.
pipeStart(r) ==
    /\ BagIn(r, running)
    /\ pipe.pc = "idle"
    /\ LET p0 == [PipeNew(pipe.cfg) EXCEPT !.payload = pipe.payload,
                                           !.moved = pipe.moved,
                                           !.task = r,
                                           !.kind = db[r.id].type]
       IN pipe' = IF ~p0.payload.valid THEN Fatal(p0, "parse payload")
                  ELSE IF p0.payload.path = NoPath THEN Fatal(p0, "empty path")
                  ELSE [p0 EXCEPT !.taskID = TaskIDFromContext(HandlerCtx(r)),
                                  !.currentPath = p0.payload.path,
                                  !.pc = "settle"]
    /\ UNCHANGED <<fs, ledger, clock, fret>>
    /\ UNCHANGED queue

\* 1. Settle; io tells whether the file kept its size and the context lived.
pipeSettle(io) ==
    /\ pipe.pc = "settle"
    /\ pipe' = Ran(IF Exists(fs, pipe.currentPath) /\ io = "ok"
                   THEN [StepOk(pipe, "settle") EXCEPT !.sub = "ok"]
                   ELSE [Fatal(pipe, "settle") EXCEPT !.sub = "error"], "settle")
    /\ UNCHANGED <<fs, ledger, clock, fret>>
    /\ UNCHANGED queue

\* 2. Classify (auto-file): handleFileClassify fails, or puts the file in
\* directory d.
pipeClassify(ok, d) ==
    /\ pipe.pc = "classify"
    /\ pipe' = Ran(IF ok
                   THEN [StepOk(pipe, "classify") EXCEPT
                            !.sub = "ok",
                            !.dest = Path(d, pipe.currentPath.base, pipe.currentPath.ext)]
                   ELSE [Fatal(pipe, "classify") EXCEPT !.sub = "error"], "classify")
    /\ UNCHANGED <<fs, ledger, clock, fret>>
    /\ UNCHANGED queue

\* 2. Tag (screenshot), when vision is enabled: handleScreenshotTag fails, or
\* suggests the name n.
pipeTag(ok, n) ==
    /\ pipe.pc = "tag"
    /\ IF pipe.cfg.UseVision
       THEN pipe' = Ran(IF ok
                        THEN [StepOk(pipe, "tag") EXCEPT !.sub = "ok", !.name = n]
                        ELSE [Fatal(pipe, "tag") EXCEPT !.sub = "error"], "tag")
       ELSE /\ ok /\ n = NoName
            /\ pipe' = StepSkipped(pipe, "tag")
    /\ UNCHANGED <<fs, ledger, clock, fret>>
    /\ UNCHANGED queue

\* The destination of the move step: cr.Destination, or the file's name in
\* cfg.Screenshots.Destination.
MoveDest ==
    IF pipe.kind = TaskPipelineAutoFile THEN pipe.dest
    ELSE Path(pipe.cfg.Destination, pipe.currentPath.base, pipe.currentPath.ext)

\* The condition of the move step.
MoveWanted ==
    IF pipe.kind = TaskPipelineAutoFile
    THEN pipe.cfg.AutoMove /\ pipe.dest # NoPath /\ pipe.dest # pipe.currentPath
    ELSE pipe.cfg.Destination # "" /\ MoveDest # pipe.currentPath

\* The outcome r of MoveFile or RenameFile in step name: an error step, or
\* the Record call, an ok step and the new current path.
fileStep(name, call, dst, r) ==
    /\ fs' = r.fs
    /\ fret' = [call |-> call, src |-> pipe.currentPath, dst |-> dst,
                path |-> r.path, err |-> r.err]
    /\ IF r.err # ""
       THEN /\ pipe' = Ran(StepError(pipe, name), name)
            /\ UNCHANGED <<ledger, clock>>
       ELSE /\ ledger' = Recorded(ledger, clock, pipe.taskID, pipe.currentPath, r.path)
            /\ clock' = clock + 1
            /\ pipe' = Ran(Moved(StepOk(pipe, name), pipe.currentPath, r.path), name)

\* The step is not executed.
skipStep(name) ==
    /\ pipe' = StepSkipped(pipe, name)
    /\ UNCHANGED <<fs, ledger, clock, fret>>

\* Move, step 3 of auto-file and step 4 of screenshot.
pipeMove(io) ==
    /\ pipe.pc = "move"
    /\ IF MoveWanted
       THEN fileStep("move", "MoveFile", MoveDest,
                     MoveFile(fs, pipe.currentPath, MoveDest, io))
       ELSE io = "ok" /\ skipStep("move")
    /\ UNCHANGED queue

\* RenameFile(currentPath, n) in the rename step.
renameTo(n, io) ==
    fileStep("rename", "RenameFile", Path(pipe.currentPath.dir, n.base, n.ext),
             RenameFile(fs, pipe.currentPath, n, io))

\* 4. Rename (auto-file): handleFileRename fails, or suggests the name n.
pipeRenameAutoFile(ok, n, io) ==
    /\ pipe.pc = "rename"
    /\ pipe.kind = TaskPipelineAutoFile
    /\ IF ~pipe.cfg.AutoRename
       THEN ok /\ n = NoName /\ io = "ok" /\ skipStep("rename")
       ELSE IF ~ok
       THEN /\ n = NoName /\ io = "ok"
            /\ pipe' = Ran([StepError(pipe, "rename") EXCEPT !.sub = "error"], "rename")
            /\ UNCHANGED <<fs, ledger, clock, fret>>
       ELSE IF n # NoName /\ n # Base(pipe.currentPath)
       THEN renameTo(n, io)
       ELSE io = "ok" /\ skipStep("rename")
    /\ UNCHANGED queue

\* 3. Rename (screenshot), to sr.SuggestedName.
pipeRenameScreenshot(io) ==
    /\ pipe.pc = "rename"
    /\ pipe.kind = TaskPipelineScreenshot
    /\ IF pipe.cfg.Rename /\ pipe.name # NoName /\ pipe.name # Base(pipe.currentPath)
       THEN renameTo(pipe.name, io)
       ELSE io = "ok" /\ skipStep("rename")
    /\ UNCHANGED queue

\* 5. Notify.
pipeNotify ==
    /\ pipe.pc = "notify"
    /\ pipe' = Ran([pipe EXCEPT !.pc = "return"], "notify")
    /\ UNCHANGED <<fs, ledger, clock, fret>>
    /\ UNCHANGED queue

\* What the pipeline returns to processTask.
PipeResult == IF pipe.err = "" THEN "ok" ELSE pipe.err

\* The handler returns and processTask runs to its end.
pipeReturn ==
    /\ pipe.pc = "return"
    /\ processTask(pipe.task, PipeResult)
    /\ Returned(pipe.task, PipeResult)
    /\ pipe' = [pipe EXCEPT !.pc = "idle"]
    /\ UNCHANGED <<fs, ledger, clock, fret>>

\* The steps of a running pipeline.
PipeSteps ==
    \/ \E r \in BagToSet(running) : pipeStart(r)
    \/ \E io \in {"ok", "error"} : pipeSettle(io)
    \/ \E ok \in BOOLEAN, d \in Dirs : pipeClassify(ok, d)
    \/ \E ok \in BOOLEAN, n \in Suggested(pipe.currentPath) : pipeTag(ok, n)
    \/ \E io \in IOs : pipeMove(io)
    \/ \E ok \in BOOLEAN, n \in Suggested(pipe.currentPath), io \in IOs :
          pipeRenameAutoFile(ok, n, io)
    \/ \E io \in IOs : pipeRenameScreenshot(io)
    \/ pipeNotify

\* The file to process, alone or with a file in the place it may be moved to.
InitPipe ==
    /\ \E S \in SUBSET {PathC, Path("out", "a", ".txt")} :
          fs = [p \in {PathA} \cup S |-> Content(p)]
    /\ ledger = {}
    /\ clock = 1
    /\ fret = NoCall
    /\ \E c \in Cfgs : pipe = PipeNew(c)

\* A started queue that runs one pipeline task.
NextPipe ==
    /\ \/ (\E type \in pipelineHandlers, payload \in Payloads :
              pipeEnqueue(type, payload)) /\ UNCHANGED lastErr
       \/ worker /\ UNCHANGED files /\ UNCHANGED lastErr
       \/ PipeSteps /\ UNCHANGED lastErr
       \/ pipeReturn
       \/ \E t \in BagToSet(retrying) : retry(t) /\ UNCHANGED files /\ UNCHANGED lastErr
    /\ Record
    /\ UNCHANGED conn

\* A started queue and a PipelineRunner.
InitSpecPipe ==
    /\ InitStartedQueue
    /\ InitPipe

SpecPipe == InitSpecPipe /\ [][NextPipe]_vars

PipeTypeOK ==
    /\ pipe.pc \in {"idle", "settle", "classify", "tag", "move", "rename",
                    "notify", "return"}
    /\ Cardinality(DOMAIN db) <= 1

\* The payload of the task cannot be parsed or has an empty path.
BadPayload == ~pipe.payload.valid \/ pipe.payload.path = NoPath

\* The pipeline is about to return err to processTask.
Returning(errs) == pipe.pc = "return" /\ pipe.err \in errs

FatalErrors == {"settle", "classify", "tag"}

\* The names of the steps in the trace.
StepNames == [i \in 1..Len(pipe.steps) |-> pipe.steps[i].name]

HasErrorStep == \E i \in 1..Len(pipe.steps) : pipe.steps[i].status = "error"

\* A step that executes the move or the rename and fails: MoveFile or
\* RenameFile returns an error, or handleFileRename does.
FailedFileStep ==
    /\ pipe.pc \in {"move", "rename"}
    /\ Len(pipe'.ran) > Len(pipe.ran)
    /\ fret'.err # "" \/ pipe'.sub = "error"

OriginalPath == pipe.payload.path
FinalPath == pipe.currentPath

\* The path a file that started at p has after the mutations of S.
RECURSIVE Follow(_, _)
Follow(p, S) ==
    IF \E m \in S : m.original_path = p
    THEN LET m == CHOOSE x \in S : x.original_path = p
         IN Follow(m.new_path, S \ {m})
    ELSE p

\* A step of a running pipeline that executes the move or the rename.
FileStepRuns ==
    /\ pipe.pc \in {"move", "rename"}
    /\ Len(pipe'.ran) > Len(pipe.ran)
    /\ fret'.call \in {"MoveFile", "RenameFile"}
    /\ pipe'.sub # "error"

TraceOrder ==
    IF pipe.kind = TaskPipelineAutoFile
    THEN <<"settle", "classify", "move", "rename">>
    ELSE <<"settle", "tag", "rename", "move">>

\* The place of a step name in the fixed order, 0 when it has none.
Place(name) ==
    IF \E j \in 1..4 : TraceOrder[j] = name
    THEN CHOOSE j \in 1..4 : TraceOrder[j] = name
    ELSE 0

\* q is p with some of its elements left out.
RECURSIVE SubSeqOf(_, _)
SubSeqOf(q, p) ==
    IF q = <<>> THEN TRUE
    ELSE IF p = <<>> THEN FALSE
    ELSE IF Head(q) = Head(p) THEN SubSeqOf(Tail(q), Tail(p))
    ELSE SubSeqOf(q, Tail(p))

Untouched ==
    \E S \in SUBSET {PathC, Path("out", "a", ".txt")} :
       fs = [p \in {PathA} \cup S |-> Content(p)]

PipelineDone ==
    /\ pipe.pc = "idle"
    /\ pipe.task # NoTask
    /\ pipe.task.id \in DOMAIN db
    /\ db[pipe.task.id].status = StatusCompleted

\* The "undo" method called with the id of the completed pipeline task:
\* count, err := undoMgr.Undo(p.TaskID).
undoHandler ==
    /\ PipelineDone
    /\ \/ undoQuery(pipe.task.id) /\ fret.call # "Undo"
       \/ \E io \in IOs : undoRow(io)
       \/ undoDelete
    /\ UNCHANGED queue
    /\ UNCHANGED hist
    /\ UNCHANGED conn

NextRound ==
    \/ NextPipe
    \/ undoHandler

\* A started queue, a PipelineRunner and the undo method.
InitSpecRound ==
    /\ InitStartedQueue
    /\ InitPipe

SpecRound == InitSpecRound /\ [][NextRound]_vars

\* The steps move and rename of the trace that have status ok.
OkFileSteps ==
    {i \in 1..Len(pipe.steps) :
        pipe.steps[i].name \in {"move", "rename"} /\ pipe.steps[i].status = "ok"}

\* The Undo of the completed pipeline task has returned without error.
RoundTripDone ==
    /\ PipelineDone
    /\ UndoReturned
    /\ fret.err = ""

Callers == 1..2

\* The name both callers aim at, and what may already be there.
RaceTarget == Path("in", "c", ".txt")
RaceName == Name("c", ".txt")

\* A call that has not started: fn is "MoveFile" or "RenameFile".
RaceCall(fn, src) ==
    [fn |-> fn, pc |-> "stat", src |-> src,
     dst |-> IF fn = "MoveFile" THEN RaceTarget
             ELSE Path(src.dir, RaceName.base, RaceName.ext),
     i |-> 0, path |-> NoPath, err |-> ""]

\* The call of caller k returns path and err.
raceReturn(k, path, err) ==
    fret' = [fret EXCEPT !.c[k].pc = "done", !.c[k].path = path, !.c[k].err = err]

\* if _, err := os.Stat(src); err != nil { return "", ... }
raceStat(k) ==
    /\ fret.c[k].pc = "stat"
    /\ IF ~Exists(fs, fret.c[k].src)
       THEN raceReturn(k, NoPath, "source not found")
       ELSE fret' = [fret EXCEPT !.c[k].pc = IF fret.c[k].fn = "MoveFile"
                                             THEN "mkdir" ELSE "resolve"]
    /\ UNCHANGED fs

\* os.MkdirAll(dstDir, 0755), in MoveFile only.
raceMkdir(k, io) ==
    /\ fret.c[k].pc = "mkdir"
    /\ IF io = "mkdir"
       THEN raceReturn(k, NoPath, "create destination directory")
       ELSE fret' = [fret EXCEPT !.c[k].pc = "resolve"]
    /\ UNCHANGED fs

\* resolveConflict: the os.Stat of dst itself.
raceResolve(k) ==
    /\ fret.c[k].pc = "resolve"
    /\ IF ~Exists(fs, fret.c[k].dst)
       THEN fret' = [fret EXCEPT !.c[k].pc = "rename", !.c[k].path = fret.c[k].dst]
       ELSE fret' = [fret EXCEPT !.c[k].pc = "loop", !.c[k].i = 1]
    /\ UNCHANGED fs

\* resolveConflict: one iteration of the loop over the candidates.
raceLoop(k) ==
    /\ fret.c[k].pc = "loop"
    /\ LET c == fret.c[k]
       IN IF c.i >= SuffixLimit
          THEN fret' = [fret EXCEPT !.c[k].pc = "rename", !.c[k].path = c.dst]
          ELSE IF ~Exists(fs, Candidate(c.dst, c.i))
          THEN fret' = [fret EXCEPT !.c[k].pc = "rename",
                                    !.c[k].path = Candidate(c.dst, c.i)]
          ELSE fret' = [fret EXCEPT !.c[k].i = c.i + 1]
    /\ UNCHANGED fs

\* os.Rename(src, dst) and the return.
raceRename(k, io) ==
    /\ fret.c[k].pc = "rename"
    /\ IF io = "rename" \/ ~Exists(fs, fret.c[k].src)
       THEN /\ raceReturn(k, NoPath, IF fret.c[k].fn = "MoveFile"
                                      THEN "move file" ELSE "rename file")
            /\ UNCHANGED fs
       ELSE /\ fs' = osRename(fs, fret.c[k].src, fret.c[k].path)
            /\ raceReturn(k, fret.c[k].path, "")

\* The two source files, and possibly files at the target and at its first
\* candidate; each caller is a MoveFile or a RenameFile to the same name.
InitRace ==
    /\ \E S \in SUBSET {RaceTarget, Candidate(RaceTarget, 1)} :
          fs = [p \in {PathA, PathB} \cup S |-> Content(p)]
    /\ \E f1 \in {"MoveFile", "RenameFile"}, f2 \in {"MoveFile", "RenameFile"} :
          fret = [call |-> "Race", c |-> <<RaceCall(f1, PathA), RaceCall(f2, PathB)>>]
    /\ ledger = {}
    /\ clock = 1
    /\ pipe = PipeIdle

NextRace ==
    /\ \E k \in Callers :
          \/ raceStat(k)
          \/ \E io \in IOs : raceMkdir(k, io)
          \/ raceResolve(k)
          \/ raceLoop(k)
          \/ \E io \in IOs : raceRename(k, io)
    /\ UNCHANGED <<ledger, clock, pipe>>
    /\ UNCHANGED queue
    /\ UNCHANGED hist
    /\ UNCHANGED conn

\* A queue not started, beside two callers of fileops.
InitSpecRace ==
    /\ InitQueue
    /\ InitRace

SpecRace == InitSpecRace /\ [][NextRace]_vars

\* Both calls have returned without error.
BothMoved == \A k \in Callers : fret.c[k].pc = "done" /\ fret.c[k].err = ""

\* C37: two MoveFile or RenameFile calls running concurrently towards the
\* same destination name never lose a file: under every interleaving of their
\* existence checks and their renames, when both have returned without error
\* the two source files are at two distinct paths, each with its content.
C37_ConcurrentMovesKeepBoth ==
    BothMoved =>
       /\ fret.c[1].path # fret.c[2].path
       /\ \A k \in Callers :
             /\ fret.c[k].path \in DOMAIN fs
             /\ fs[fret.c[k].path] = Content(fret.c[k].src)

\* --------------------------------------------------------------- waitForSettle

\* The sizes a file may have; in this part a file's content is its size.
Sizes == 1..MaxSize

\* The delayMs arguments explored.
DelayArgs == {0, 100}

\* if delayMs <= 0 { delayMs = 2000 }
Delay(delayMs) == IF delayMs <= 0 THEN 2000 ELSE delayMs

\* A call waitForSettle(ctx, PathA, delayMs) about to make its first check.
\* cancelled tells whether ctx is cancelled, cancelled0 whether it was when
\* the call was made; info1 and info2 are the sizes read; seen lists what each
\* check found (0 for a missing file), waits counts the selects entered, hit
\* tells that a select ended on ctx.Done().
SettleNew(delayMs, cancelled) ==
    [pc |-> "stat1", delay |-> Delay(delayMs), cancelled |-> cancelled,
     cancelled0 |-> cancelled, info1 |-> 0, info2 |-> 0, seen |-> <<>>,
     waits |-> 0, hit |-> FALSE, err |-> ""]

\* What os.Stat(PathA) finds: the size, 0 for a missing file.
Stat == IF Exists(fs, PathA) THEN fs[PathA] ELSE 0

\* waitForSettle returns err.
settleReturn(p, err) == [p EXCEPT !.pc = "done", !.err = err]

\* info1, err := os.Stat(path)
settleStat1 ==
    /\ pipe.pc = "stat1"
    /\ LET p == [pipe EXCEPT !.seen = Append(@, Stat)]
       IN pipe' = IF ~Exists(fs, PathA) THEN settleReturn(p, "file not found")
                  ELSE [p EXCEPT !.info1 = Stat, !.pc = "wait1"]
    /\ UNCHANGED <<fs, clock>>

\* select { case <-ctx.Done(): return ctx.Err(); case <-time.After(delay): }
\* The wait ends on the cancellation when ctx is or gets cancelled before the
\* delay is over, and on the timer otherwise.
settleWait(from, to) ==
    /\ pipe.pc = from
    /\ LET p == [pipe EXCEPT !.waits = @ + 1]
       IN IF pipe.cancelled
          THEN /\ pipe' = [settleReturn(p, "context canceled") EXCEPT !.hit = TRUE]
               /\ clock' = clock
          ELSE /\ pipe' = [p EXCEPT !.pc = to]
               /\ clock' = clock + pipe.delay
    /\ UNCHANGED fs

\* info2, err := os.Stat(path), and the comparison with info1.
settleStat2 ==
    /\ pipe.pc = "stat2"
    /\ LET p == [pipe EXCEPT !.seen = Append(@, Stat)]
       IN pipe' = IF ~Exists(fs, PathA) THEN settleReturn(p, "file disappeared")
                  ELSE IF pipe.info1 # Stat THEN [p EXCEPT !.info2 = Stat, !.pc = "wait2"]
                  ELSE settleReturn(p, "")
    /\ UNCHANGED <<fs, clock>>

\* A third check that compares with the first size read.
settledSinceFirst(info1, info2, info3) == info1 = info3

\* if info2.Size() != info3.Size() { return "file still changing size" }
settled(info1, info2, info3) == info2 = info3

\* info3, err := os.Stat(path), and the comparison with info2.
settleStat3 ==
    /\ pipe.pc = "stat3"
    /\ LET p == [pipe EXCEPT !.seen = Append(@, Stat)]
       IN pipe' = IF ~Exists(fs, PathA) THEN settleReturn(p, "file disappeared")
                  ELSE IF ~settled(pipe.info1, pipe.info2, Stat)
                  THEN settleReturn(p, "file still changing size")
                  ELSE settleReturn(p, "")
    /\ UNCHANGED <<fs, clock>>

\* Another process writes the file, giving it size n.
envWrite(n) ==
    /\ pipe.pc # "done"
    /\ Stat # n
    /\ fs' = (PathA :> n)
    /\ UNCHANGED <<pipe, clock>>

\* Another process removes the file.
envRemove ==
    /\ pipe.pc # "done"
    /\ Exists(fs, PathA)
    /\ fs' = EmptyFS
    /\ UNCHANGED <<pipe, clock>>

\* The context of the call is cancelled.
envCancel ==
    /\ pipe.pc # "done"
    /\ ~pipe.cancelled
    /\ pipe' = [pipe EXCEPT !.cancelled = TRUE]
    /\ UNCHANGED <<fs, clock>>

\* A call of waitForSettle on a file that exists or not, with a context that
\* is cancelled or not.
InitSpecSettle ==
    /\ InitQueue
    /\ \E S \in {0} \cup Sizes : fs = IF S = 0 THEN EmptyFS ELSE (PathA :> S)
    /\ ledger = {}
    /\ clock = 1
    /\ fret = NoCall
    /\ \E d \in DelayArgs, c \in BOOLEAN : pipe = SettleNew(d, c)

NextSettle ==
    /\ \/ settleStat1
       \/ settleWait("wait1", "stat2")
       \/ settleStat2
       \/ settleWait("wait2", "stat3")
       \/ settleStat3
       \/ \E n \in Sizes : envWrite(n)
       \/ envRemove
       \/ envCancel
    /\ UNCHANGED <<ledger, fret>>
    /\ UNCHANGED queue
    /\ UNCHANGED hist
    /\ UNCHANGED conn

SpecSettle == InitSpecSettle /\ [][NextSettle]_vars

\* waitForSettle has returned.
SettleDone == pipe.pc = "done"

\* What the checks made found: the file each time, with one size at checks 1
\* and 2, or with different sizes at checks 1 and 2 and one size at 2 and 3.
SeenSettled ==
    /\ \A i \in 1..Len(pipe.seen) : pipe.seen[i] # 0
    /\ \/ Len(pipe.seen) = 2 /\ pipe.seen[1] = pipe.seen[2]
       \/ /\ Len(pipe.seen) = 3
          /\ pipe.seen[1] # pipe.seen[2]
          /\ pipe.seen[2] = pipe.seen[3]

\* C23: waitForSettle succeeds exactly when the file exists at every check
\* made and its size is equal at checks 1 and 2, or differs at 1 and 2 and is
\* equal at checks 2 and 3, and no wait ended on the cancellation of the
\* context; it fails when the file is missing at a check, when the size still
\* differs between checks 2 and 3, and when the context is or gets cancelled
\* during a wait; with a context cancelled from the start it fails without
\* any delay having passed; it makes at most three checks and two waits, and
\* a third check only after the first two differed.
C23_SettleOutcome ==
    /\ Len(pipe.seen) <= 3 /\ pipe.waits <= 2
    /\ SettleDone =>
          /\ pipe.err = "" <=> (SeenSettled /\ ~pipe.hit)
          /\ (\E i \in 1..Len(pipe.seen) : pipe.seen[i] = 0) => pipe.err # ""
          /\ (Len(pipe.seen) = 3 /\ pipe.seen[2] # pipe.seen[3]) => pipe.err # ""
          /\ Len(pipe.seen) = 3 => pipe.seen[1] # pipe.seen[2]
          /\ pipe.hit => pipe.err # ""
          /\ pipe.cancelled0 => pipe.err # "" /\ clock = 1 /\ Len(pipe.seen) <= 1
          /\ clock = 1 + pipe.delay * (IF pipe.hit THEN pipe.waits - 1 ELSE pipe.waits)
    /\ (pipe.pc \in {"wait1", "wait2"} /\ pipe.cancelled) =>
          ~ENABLED (settleWait(pipe.pc, "stat2") /\ clock' # clock)

\* The size changed between checks 1 and 2 and not between checks 2 and 3:
\* the call returned without error after two full delays.
C23_Witness ==
    /\ SettleDone
    /\ pipe.err = ""
    /\ Len(pipe.seen) = 3
    /\ pipe.seen[1] # pipe.seen[2]
    /\ pipe.waits = 2
    /\ clock = 1 + 2 * pipe.delay

\* ------------------------------------------------------------- the API server

\* Standard JSON-RPC error codes.
ErrCodeParse == -32700
ErrCodeInvalidRequest == -32600
ErrCodeMethodNotFound == -32601
ErrCodeInternal == -32603

\* The JSON values an id may be: null, a string, a number.
IdNull == [t |-> "null", n |-> 0, s |-> ""]
IdStr(str) == [t |-> "string", n |-> 0, s |-> str]
IdNum(n) == [t |-> "number", n |-> n, s |-> ""]

\* Up to MaxExact every integer is a float64; between MaxExact and twice
\* MaxExact the even ones are.
MaxExact == 2 ^ MantissaBits

\* The float64 nearest to the integer n in 0..2*MaxExact, ties to the even
\* mantissa: what json.Unmarshal stores for a JSON number in an `any`.
float64(n) ==
    IF n <= MaxExact \/ n % 2 = 0 THEN n
    ELSE IF ((n - 1) \div 2) % 2 = 0 THEN n - 1 ELSE n + 1

\* json.Unmarshal of the "id" member into Request.ID (type any).
decodeID(id) == IF id.t = "number" THEN IdNum(float64(id.n)) ELSE id

\* The "params" of a task.cancel request: whether they parse, and the id.
Params(valid, id) == [valid |-> valid, id |-> id]
NoParams == Params(TRUE, 0)

\* A line a client writes: one longer than the scanner's buffer, an empty
\* one, one that json.Unmarshal rejects, or a JSON object with these members.
Line(kind, jsonrpc, method, id, params) ==
    [kind |-> kind, jsonrpc |-> jsonrpc, method |-> method, id |-> id,
     params |-> params]
LongLine == Line("long", "", "", IdNull, NoParams)
EmptyLine == Line("empty", "", "", IdNull, NoParams)
GarbageLine == Line("garbage", "", "", IdNull, NoParams)

\* The ids the client uses.
ApiIds == {IdNull, IdStr("a"), IdNum(MaxExact + 1)}

\* The lines explored.
ApiLines ==
    {LongLine, EmptyLine, GarbageLine}
    \cup {Line("json", "2.0", "nonexistent.method", id, NoParams) : id \in ApiIds}
    \cup {Line("json", "2.0", "clipboard.summarize", IdStr("a"), NoParams),
          Line("json", "2.0", "task.queue", IdNum(1), NoParams),
          Line("json", "1.0", "task.cancel", IdNum(1), Params(TRUE, 1)),
          Line("json", "2.0", "task.cancel", IdNum(2), Params(FALSE, 0))}
    \cup {Line("json", "2.0", "task.cancel", IdNum(2), Params(TRUE, t)) : t \in 1..2}

\* The Request json.Unmarshal fills from a line that is a JSON object.
Request(line) ==
    [JSONRPC |-> line.jsonrpc, Method |-> line.method, Params |-> line.params,
     ID |-> decodeID(line.id)]

\* s.handlers after registerAPIHandlers, the methods modelled.
apiHandlers == {"task.queue", "task.cancel", "clipboard.summarize"}

\* Response with an Error, and with a Result.
ErrorResponse(code, message, id) ==
    [code |-> code, message |-> message, result |-> "", id |-> id]
ResultResponse(result, id) ==
    [code |-> 0, message |-> "", result |-> result, id |-> id]

\* What a handler returns: a result, or an error text.
Outcome(result, err) == [result |-> result, err |-> err]

\* A server that looks the handler up and calls it before it checks the
\* envelope.
InvokesFirst(req) == req.Method \in apiHandlers

\* handleRequest reaches the handler call.
Invokes(req) == req.JSONRPC = "2.0" /\ req.Method \in apiHandlers

\* The Response handleRequest returns; h is what the handler returned, when
\* it was called.
handleRequest(req, h) ==
    IF req.JSONRPC # "2.0"
    THEN ErrorResponse(ErrCodeInvalidRequest, "Invalid Request", req.ID)
    ELSE IF req.Method \notin apiHandlers
    THEN ErrorResponse(ErrCodeMethodNotFound, "Method not found", req.ID)
    ELSE IF h.err # ""
    THEN ErrorResponse(ErrCodeInternal, h.err, req.ID)
    ELSE ResultResponse(h.result, req.ID)

\* The response to a line json.Unmarshal rejects.
ParseErrorResponse == ErrorResponse(ErrCodeParse, "Parse error", IdNull)

\* encoder.Encode(resp) for the line just handled; ran tells whether a
\* handler was called, err what it returned.
Encoded(c, line, resp, ran, err) ==
    [c EXCEPT !.out = Append(@, [resp |-> resp, line |-> line, ran |-> ran,
                                 err |-> err]),
              !.calls = IF ran THEN @ + 1 ELSE @]

\* The client writes a line. The socket buffers the lines, so the client is
\* taken to write all of them before the server reads the first and before
\* the queue has a task.
clientSend(line) ==
    /\ conn.pc = "read"
    /\ conn.in = conn.sent
    /\ db = <<>>
    /\ Len(conn.sent) < MaxLines
    /\ conn' = [conn EXCEPT !.in = Append(@, line), !.sent = Append(@, line)]
    /\ UNCHANGED queue

\* The handler of task.cancel.
taskCancel(c, line, req) ==
    IF ~req.Params.valid
    THEN /\ conn' = Encoded(c, line, handleRequest(req, Outcome("", "parse params")),
                            TRUE, "parse params")
         /\ UNCHANGED queue
    ELSE \E err \in BOOLEAN :
            /\ CancelTask(req.Params.id, err)
            /\ LET text == IF err THEN "task not found or already completed" ELSE ""
               IN conn' = Encoded(c, line, handleRequest(req, Outcome("cancelled", text)),
                                  TRUE, text)

\* The handler of clipboard.summarize up to its wait: the connection stays in
\* the handler until EnqueueAndWait returns.
clipboardSummarize(c, line, req) ==
    /\ EnqueueAndWait(TaskClipboardSummarize, 1)
    /\ conn' = [c EXCEPT !.pc = "call", !.line = line]

\* The handler of the request is called.
invoke(c, line, req) ==
    IF req.Method = "task.cancel" THEN taskCancel(c, line, req)
    ELSE IF req.Method = "clipboard.summarize" THEN clipboardSummarize(c, line, req)
    ELSE /\ conn' = Encoded(c, line, handleRequest(req, Outcome("tasks", "")), TRUE, "")
         /\ UNCHANGED queue

\* One iteration of the loop of handleConnection: scanner.Scan() and what is
\* done with the line.
connRead ==
    /\ conn.pc = "read"
    /\ conn.in # <<>>
    /\ LET line == Head(conn.in)
           c == [conn EXCEPT !.in = Tail(@)]
       IN IF line.kind = "long"
          THEN conn' = [c EXCEPT !.pc = "closed"] /\ UNCHANGED queue
          ELSE IF line.kind = "empty"
          THEN conn' = c /\ UNCHANGED queue
          ELSE IF line.kind = "garbage"
          THEN conn' = Encoded(c, line, ParseErrorResponse, FALSE, "") /\ UNCHANGED queue
          ELSE IF Invokes(Request(line))
          THEN invoke(c, line, Request(line))
          ELSE /\ conn' = Encoded(c, line, handleRequest(Request(line), Outcome("", "")),
                                  FALSE, "")
               /\ UNCHANGED queue

\* What EnqueueAndWait returned to the handler of clipboard.summarize.
waitOutcome ==
    IF waiter.task = StatusCompleted THEN Outcome(db[waiter.id].result, "")
    ELSE IF waiter.task = StatusFailed
    THEN Outcome("", "task failed: " \o db[waiter.id].error)
    ELSE Outcome("", "task queue full")

\* EnqueueAndWait has returned: the handler returns and the response is
\* written.
connReturn ==
    /\ conn.pc = "call"
    /\ waiter.pc = "returned"
    /\ conn' = Encoded([conn EXCEPT !.pc = "read"], conn.line,
                       handleRequest(Request(conn.line), waitOutcome),
                       TRUE, waitOutcome.err)
    /\ UNCHANGED queue

\* The daemon enqueues a task of its own, the first task of the run.
daemonEnqueue ==
    /\ db = <<>>
    /\ \E err \in {"", "task queue full"} : Enqueue(TaskClipboardSummarize, 0, err)

\* A started daemon serving one connection.
NextApi ==
    /\ \/ \E line \in ApiLines : clientSend(line)
       \/ connRead
       \/ connReturn
       \/ waitTick /\ UNCHANGED conn
       \/ daemonEnqueue /\ UNCHANGED conn
       \/ Working /\ UNCHANGED conn
    /\ UNCHANGED hist
    /\ UNCHANGED files

SpecApi == InitStarted /\ [][NextApi]_vars

\* The lines the server has taken from the connection.
ReadLines == SubSeq(conn.sent, 1, Len(conn.sent) - Len(conn.in))

\* The lines that are requests: the loop skips empty lines.
IsRequestLine(l) == l.kind # "empty"
RequestLines(lines) == SelectSeq(lines, IsRequestLine)

\* The line is a JSON-RPC 2.0 envelope.
ValidEnvelope(l) == l.kind = "json" /\ l.jsonrpc = "2.0"

\* C24: the server answers each request line with a result or one of three
\* error shapes: every request line it has read is answered or in its
\* handler; a line that is not a valid JSON envelope gets a parse error (code
\* -32700, id null); a well-formed request for an unregistered method gets
\* method-not-found (code -32601) and no handler runs; a handler that returns
\* an error gets an internal error (code -32603) with the handler's error
\* text as message; a handler that returns no error gets a result.
C24_ThreeErrorShapes ==
    /\ Len(conn.out) + (IF conn.pc = "call" THEN 1 ELSE 0)
          = Len(RequestLines(ReadLines))
    /\ \A k \in 1..Len(conn.out) :
          LET e == conn.out[k]
          IN /\ e.resp.code \in {0, ErrCodeParse, ErrCodeMethodNotFound, ErrCodeInternal}
             /\ ~ValidEnvelope(e.line) =>
                   e.resp.code = ErrCodeParse /\ e.resp.id = IdNull
             /\ (ValidEnvelope(e.line) /\ e.line.method \notin apiHandlers) =>
                   e.resp.code = ErrCodeMethodNotFound /\ ~e.ran
             /\ (e.ran /\ e.err # "") =>
                   e.resp.code = ErrCodeInternal /\ e.resp.message = e.err
             /\ (e.ran /\ e.err = "") => e.resp.code = 0

\* C25: every response to a parsed request carries the id of the request it
\* answers, and on a connection the k-th response answers the k-th non-empty
\* line the client sent.
C25_ResponseCarriesRequestId ==
    \A k \in 1..Len(conn.out) :
       /\ k <= Len(RequestLines(conn.sent))
       /\ conn.out[k].line = RequestLines(conn.sent)[k]
       /\ conn.out[k].line.kind = "json" => conn.out[k].resp.id = conn.out[k].line.id

\* The codes of the responses to requests rejected before any handler.
RejectCodes == {ErrCodeParse, ErrCodeInvalidRequest, ErrCodeMethodNotFound}

\* C26: a protocol-level failure changes no task state: the step that answers
\* a request with a parse error, an invalid request or a method not found
\* calls no handler, creates no task, changes no task row, no task in memory
\* and no ledger operation or file; and the step that answers a task.cancel
\* request with an error leaves every task row unchanged.
C26_RejectionChangesNothing ==
    [][Len(conn'.out) = Len(conn.out) + 1 =>
          LET e == conn'.out[Len(conn'.out)]
          IN /\ e.resp.code \in RejectCodes =>
                   /\ UNCHANGED <<db, tasks, running, retrying, nextId, waiter>>
                   /\ UNCHANGED <<ledger, fs>>
                   /\ ~e.ran
                   /\ conn'.calls = conn.calls
             /\ (e.line.method = "task.cancel" /\ e.resp.code # 0) =>
                   /\ db' = db
                   /\ UNCHANGED <<ledger, fs>>]_vars

\* A request for a registered method in a wrong envelope was rejected, and a
\* task.cancel of a task that is already failed or completed was answered
\* with an error.
C26_Witness ==
    /\ \E k \in 1..Len(conn.out) :
          /\ conn.out[k].resp.code = ErrCodeInvalidRequest
          /\ conn.out[k].line.method = "task.cancel"
          /\ conn.out[k].line.params.id \in DOMAIN db
    /\ \E k \in 1..Len(conn.out) :
          LET e == conn.out[k]
          IN /\ e.resp.code = ErrCodeInternal
             /\ e.line.method = "task.cancel"
             /\ e.line.params.valid
             /\ e.line.params.id \in DOMAIN db
             /\ db[e.line.params.id].status \in {StatusFailed, StatusCompleted}


\* ---------------------------------------------------- the API server's life cycle

\* The server after Start: the listener is open, acceptLoop runs with the
\* context given to Start, no connection yet. client[k] is what client k does
\* with its connection (none, open, closed), lines[k] the request lines it
\* has sent and the server has not read, conns[k] where the goroutine of
\* handleConnection stands (none, scan, handler, returned), wg the counter of
\* s.wg, stop where Stop stands, accepts the failed Accept calls made since
\* Stop returned.
ServerStarted ==
    [listener |-> "open", ctx |-> "live", accept |-> "accept",
     client |-> [k \in 1..MaxConns |-> "none"],
     lines |-> [k \in 1..MaxConns |-> 0],
     conns |-> [k \in 1..MaxConns |-> "none"],
     wg |-> 0, stop |-> "idle", accepts |-> 0]

\* The owner of the context given to Start cancels it.
ctxCancel ==
    /\ conn.ctx = "live"
    /\ conn' = [conn EXCEPT !.ctx = "done"]

\* Client k connects; acceptLoop: Accept returns the connection,
\* s.wg.Add(1), go handleConnection.
acceptLoop(k) ==
    /\ conn.accept = "accept"
    /\ conn.listener = "open"
    /\ conn.client[k] = "none"
    /\ conn' = [conn EXCEPT !.client[k] = "open", !.conns[k] = "scan",
                            !.wg = @ + 1]

\* acceptLoop: Accept fails on the closed listener; the loop returns when
\* ctx is done and otherwise logs the error and calls Accept again.
acceptLoopErr ==
    /\ conn.accept = "accept"
    /\ conn.listener = "closed"
    /\ IF conn.ctx = "done"
       THEN conn' = [conn EXCEPT !.accept = "returned"]
       ELSE /\ conn.accepts < MaxAccepts
            /\ conn' = [conn EXCEPT !.accepts =
                           IF conn.stop = "returned" THEN @ + 1 ELSE @]

\* Client k writes a request line.
clientWrite(k) ==
    /\ conn.client[k] = "open"
    /\ conn.lines[k] = 0
    /\ conn.conns[k] # "returned"
    /\ conn' = [conn EXCEPT !.lines[k] = 1]

\* Client k closes its connection.
clientClose(k) ==
    /\ conn.client[k] = "open"
    /\ conn' = [conn EXCEPT !.client[k] = "closed"]

\* handleConnection returns: the deferred conn.Close() and s.wg.Done().
connDone(c, k) == [c EXCEPT !.conns[k] = "returned", !.wg = @ - 1]

\* handleConnection: scanner.Scan() returns a line, or false at the end of
\* the stream; on a line the loop returns when ctx is done and calls the
\* handler otherwise. Scan blocks while the client is silent.
handleConnectionScan(k) ==
    /\ conn.conns[k] = "scan"
    /\ IF conn.lines[k] > 0
       THEN conn' = IF conn.ctx = "done"
                    THEN connDone(conn, k)
                    ELSE [conn EXCEPT !.conns[k] = "handler", !.lines[k] = 0]
       ELSE /\ conn.client[k] = "closed"
            /\ conn' = connDone(conn, k)

\* handleConnection: the handler returns and the response is encoded; the
\* loop returns when the write fails.
handleConnectionReply(k) ==
    /\ conn.conns[k] = "handler"
    /\ conn' = IF conn.client[k] = "closed"
               THEN connDone(conn, k)
               ELSE [conn EXCEPT !.conns[k] = "scan"]

\* Stop: s.listener.Close()
ServerStopClose ==
    /\ conn.stop = "idle"
    /\ conn' = [conn EXCEPT !.stop = "wait", !.listener = "closed"]

\* Stop: s.wg.Wait() returns, os.Remove(s.socketPath), return nil.
ServerStopWait ==
    /\ conn.stop = "wait"
    /\ conn.wg = 0
    /\ conn' = [conn EXCEPT !.stop = "returned"]

NextServer ==
    /\ \/ ctxCancel
       \/ \E k \in 1..MaxConns : acceptLoop(k)
       \/ acceptLoopErr
       \/ \E k \in 1..MaxConns : clientWrite(k)
       \/ \E k \in 1..MaxConns : clientClose(k)
       \/ \E k \in 1..MaxConns : handleConnectionScan(k)
       \/ \E k \in 1..MaxConns : handleConnectionReply(k)
       \/ ServerStopClose
       \/ ServerStopWait
    /\ UNCHANGED queue
    /\ UNCHANGED hist
    /\ UNCHANGED files

\* A queue not started, beside a started API server.
InitSpecServer ==
    /\ db = <<>>
    /\ tasks = <<>>
    /\ phase = "new"
    /\ workers = 0
    /\ running = EmptyBag
    /\ retrying = EmptyBag
    /\ nextId = 1
    /\ waiter = WaiterIdle
    /\ calls = [id \in Ids |-> 0]
    /\ recovered = {}
    /\ lastErr = [id \in Ids |-> ""]
    /\ InitFiles
    /\ conn = ServerStarted

\* The goroutines of the server are scheduled, every handler returns and
\* Stop, once called, runs on; clients and the owner of ctx are free.
ServerFairness ==
    /\ WF_vars(ServerStopWait /\ UNCHANGED <<queue, hist, files>>)
    /\ WF_vars(acceptLoopErr /\ UNCHANGED <<queue, hist, files>>)
    /\ \A k \in 1..MaxConns :
          /\ WF_vars(handleConnectionScan(k) /\ UNCHANGED <<queue, hist, files>>)
          /\ WF_vars(handleConnectionReply(k) /\ UNCHANGED <<queue, hist, files>>)

SpecServer == InitSpecServer /\ [][NextServer]_vars /\ ServerFairness

\* C40: Stop always terminates and ends all server activity: once called it
\* returns, even while a client keeps an idle connection open or a handler
\* is still running, and after it has returned the accept loop makes no
\* further Accept call, whether or not the context given to Start is
\* cancelled.
C40_ServerStopTerminates ==
    /\ (conn.stop = "wait") ~> (conn.stop = "returned")
    /\ [](conn.accepts = 0)

====
